---- MODULE Spec2Model ----
(***************************************************************************)
(* State-machine model of the grok2api gateway core:                       *)
(*   - the quota ledger (src/src/repo/apiKeyUsage.ts, apiKeys.ts,          *)
(*     migrations/0005_api_key_quotas.sql);                                *)
(*   - the request orchestrator (src/src/routes/openai.ts).                *)
(* Time is counted in minutes since the Unix epoch (the source's           *)
(* milliseconds divided by 60000) so that timestamps fit TLC's integers.   *)
(***************************************************************************)
EXTENDS Integers, Sequences, FiniteSets, TLC

VARIABLES
    api_keys,   \* table api_keys: key -> row (exists, is_active, four limits)
    usage,      \* table api_key_usage_daily: <<key, day>> -> row
    now,        \* the wall clock read by nowMs()
    call,       \* direct callers of the ledger functions: caller -> frame
    tokens,     \* the credential pool: token -> failure count, cooldown
    req,        \* inbound requests being handled: slot -> handler frame
    img,        \* one call of an image result helper: its locals and output
    sse,        \* one image event stream: its locals and the events sent
    fn,         \* one call of a pure helper: its arguments and its result
    mlim        \* one call of mapLimit: its queue, workers and results

vars == <<api_keys, usage, now, call, tokens, req, img, sse, fn, mlim>>

(***************************************************************************)
(* Bounds of the model.                                                    *)
(***************************************************************************)
NumCallers == 2
MaxTicks == 1
NumClients == 2
MaxImages == 1

Callers == 1..NumCallers
Keys == {"k1", "k2"}
UsageFields == {"chat_used", "heavy_used", "image_used", "video_used"}

\* Inputs offered to the ledger functions (raw, before normalisation).
IncChoices == {0, 1, 2}
LedgerFields == {"chat_used", "heavy_used"}
LimitChoices == {-1, 0, 1, 2}

\* The clock starts one minute before a local midnight of the default
\* offset: 2026-11-04 23:59 at UTC+8, the end of local day 20761.
DefaultTzOffsetMinutes == 480
StartMinute == 20762 * 1440 - DefaultTzOffsetMinutes - 1
Times == StartMinute..(StartMinute + MaxTicks)

(***************************************************************************)
(* localDayString: Date(now + offset).getUTC{FullYear,Month,Date}          *)
(* formatted as YYYY-MM-DD.                                                *)
(***************************************************************************)
pad2(n) == IF n < 10 THEN "0" \o ToString(n) ELSE ToString(n)

FloorDiv(a, b) == IF a >= 0 THEN a \div b ELSE -((-a + b - 1) \div b)

\* The proleptic Gregorian date of a day number (days since 1970-01-01),
\* which is what the Date getters return.
CivilFromDays(days) ==
    LET z == days + 719468
        era == FloorDiv(z, 146097)
        doe == z - era * 146097
        yoe == (doe - doe \div 1460 + doe \div 36524 - doe \div 146096) \div 365
        doy == doe - (365 * yoe + yoe \div 4 - yoe \div 100)
        mp == (5 * doy + 2) \div 153
        d == doy - (153 * mp + 2) \div 5 + 1
        m == IF mp < 10 THEN mp + 3 ELSE mp - 9
        y == yoe + era * 400 + (IF m <= 2 THEN 1 ELSE 0)
    IN  [y |-> y, m |-> m, d |-> d]

localDayString(nowMin, tzOffsetMinutes) ==
    LET local == nowMin + tzOffsetMinutes
        date == CivilFromDays(FloorDiv(local, 1440))
    IN  ToString(date.y) \o "-" \o pad2(date.m) \o "-" \o pad2(date.d)

Days == {localDayString(t, DefaultTzOffsetMinutes) : t \in Times}

(***************************************************************************)
(* Table api_key_usage_daily.                                              *)
(***************************************************************************)
NoRow ==
    [exists |-> FALSE, chat_used |-> 0, heavy_used |-> 0, image_used |-> 0,
     video_used |-> 0, updated_at |-> 0]

\* A row as INSERT ... (key, day, updated_at) creates it: counters DEFAULT 0.
NewUsageRow(atMs) ==
    [exists |-> TRUE, chat_used |-> 0, heavy_used |-> 0, image_used |-> 0,
     video_used |-> 0, updated_at |-> atMs]

\* Variant: INSERT OR REPLACE, which resets an existing row.
ensureUsageRow_Replace(u, key, day, atMs) ==
    [u EXCEPT ![<<key, day>>] = NewUsageRow(atMs)]

\* INSERT OR IGNORE INTO api_key_usage_daily(key, day, updated_at)
ensureUsageRow(u, key, day, atMs) ==
    IF u[<<key, day>>].exists THEN u
    ELSE [u EXCEPT ![<<key, day>>] = NewUsageRow(atMs)]

\* Increments as a caller may pass them: a number, or a value that Number()
\* turns into NaN.
RawZeroIncs == {[kind |-> "number", v |-> 0], [kind |-> "number", v |-> -1],
                [kind |-> "NaN", v |-> 0]}

\* Number(inc) || 0
NumberOrZero(raw) == IF raw.kind = "NaN" THEN 0 ELSE raw.v

\* Math.max(0, Math.floor(Number(inc) || 0))
NormalizeInc(inc) == IF inc > 0 THEN inc ELSE 0

\* Math.floor(Number(limit) || -1): 0 is falsy, so a limit of 0 becomes -1
NormalizeMultiLimit(limit) == IF limit = 0 THEN -1 ELSE limit

\* Variant: strict comparison, field + ? < ?.
QuotaCondition_Strict(row, field, inc, limit) ==
    limit < 0 \/ row[field] + inc < limit

\* Variant: the `? < 0 OR` disjunct left out.
QuotaCondition_NoUnlimited(row, field, inc, limit) ==
    row[field] + inc <= limit

\* The quota condition of the WHERE clause: (? < 0 OR field + ? <= ?)
QuotaCondition(row, field, inc, limit) ==
    limit < 0 \/ row[field] + inc <= limit

\* The rows the UPDATE's WHERE clause matches: key = ? AND day = ? AND the
\* quota conditions of all the updates.
UpdateMatches(u, key, day, updates) ==
    /\ u[<<key, day>>].exists
    /\ \A i \in 1..Len(updates) :
          QuotaCondition(u[<<key, day>>], updates[i].field, updates[i].inc,
                         updates[i].limit)

\* SET field = field + inc for each update (all read the row's old values;
\* the last assignment to a column wins), then updated_at = atMs.
RECURSIVE ApplySet(_, _, _, _)
ApplySet(old, row, updates, i) ==
    IF i > Len(updates) THEN row
    ELSE ApplySet(old,
                  [row EXCEPT ![updates[i].field] = old[updates[i].field] + updates[i].inc],
                  updates, i + 1)

\* Variant: WHERE key = ? without AND day = ?, every day's row of the key
\* that passes the conditions is updated.
ConditionalUpdate_AnyDay(u, key, day, updates, atMs) ==
    LET hit == {kd \in DOMAIN u : kd[1] = key /\ UpdateMatches(u, kd[1], kd[2], updates)}
    IN  [table |-> [kd \in DOMAIN u |->
                      IF kd \in hit
                      THEN [ApplySet(u[kd], u[kd], updates, 1) EXCEPT !.updated_at = atMs]
                      ELSE u[kd]],
         changes |-> Cardinality(hit)]

\* The conditional UPDATE as one atomic statement: the table after it and
\* meta.changes.
ConditionalUpdate(u, key, day, updates, atMs) ==
    IF UpdateMatches(u, key, day, updates)
    THEN [table |-> [u EXCEPT ![<<key, day>>] =
                        [ApplySet(@, @, updates, 1) EXCEPT !.updated_at = atMs]],
          changes |-> 1]
    ELSE [table |-> u, changes |-> 0]

\* tryConsumeDailyUsage normalises inc only.
NormalizeSingle(field, inc, limit) ==
    LET n == NormalizeInc(inc)
    IN  IF n = 0 THEN <<>> ELSE <<[field |-> field, inc |-> n, limit |-> limit]>>

\* tryConsumeDailyUsageMulti: map (normalise inc and limit), filter inc > 0.
RECURSIVE NormalizeMulti(_)
NormalizeMulti(updates) ==
    IF updates = <<>> THEN <<>>
    ELSE LET u == Head(updates)
             n == NormalizeInc(u.inc)
             rest == NormalizeMulti(Tail(updates))
         IN  IF n > 0
             THEN <<[field |-> u.field, inc |-> n,
                     limit |-> NormalizeMultiLimit(u.limit)]>> \o rest
             ELSE rest

(***************************************************************************)
(* Direct callers of the ledger: each call is three steps, the synchronous *)
(* prefix (normalisation, early return), the INSERT OR IGNORE and the      *)
(* conditional UPDATE; steps of different callers interleave.              *)
(***************************************************************************)
IdleCall ==
    [pc |-> "idle", multi |-> FALSE, key |-> "", day |-> "", args |-> <<>>,
     atMs |-> 0, result |-> FALSE]

\* The updates a call sends to the store: its arguments, normalised.
Normalized(f) ==
    IF f.multi THEN NormalizeMulti(f.args)
    ELSE NormalizeSingle(f.args[1].field, f.args[1].inc, f.args[1].limit)

\* The prefix without its early return.
Enter_AlwaysEnsure(multi, key, day, args, atMs) ==
    [pc |-> "ensure", multi |-> multi, key |-> key, day |-> day,
     args |-> args, atMs |-> atMs, result |-> FALSE]

\* The synchronous prefix of a call: normalise, `return true` when nothing
\* is left to add, else go on to ensureUsageRow.
Enter(multi, key, day, args, atMs) ==
    LET f == [pc |-> "ensure", multi |-> multi, key |-> key, day |-> day,
              args |-> args, atMs |-> atMs, result |-> FALSE]
    IN  IF Normalized(f) = <<>>
        THEN [f EXCEPT !.pc = "done", !.result = TRUE]
        ELSE f

\* tryConsumeDailyUsage({key, day, field, inc, limit, atMs})
tryConsumeDailyUsage(c, key, field, inc, limit) ==
    /\ call[c].pc = "idle"
    /\ call' = [call EXCEPT ![c] =
                  Enter(FALSE, key, localDayString(now, DefaultTzOffsetMinutes),
                        <<[field |-> field, inc |-> inc, limit |-> limit]>>, now)]
    /\ UNCHANGED <<mlim, fn, sse, img, api_keys, usage, now, tokens, req>>

\* tryConsumeDailyUsageMulti({key, day, updates, atMs})
tryConsumeDailyUsageMulti(c, key, updates) ==
    /\ call[c].pc = "idle"
    /\ call' = [call EXCEPT ![c] =
                  Enter(TRUE, key, localDayString(now, DefaultTzOffsetMinutes),
                        updates, now)]
    /\ UNCHANGED <<mlim, fn, sse, img, api_keys, usage, now, tokens, req>>

\* await ensureUsageRow(db, key, day, atMs)
CallEnsure(c) ==
    /\ call[c].pc = "ensure"
    /\ usage' = ensureUsageRow(usage, call[c].key, call[c].day, call[c].atMs)
    /\ call' = [call EXCEPT ![c].pc = "update"]
    /\ UNCHANGED <<mlim, fn, sse, img, api_keys, now, tokens, req>>

\* await db.prepare(sql).bind(...).run(); return changes > 0
CallUpdate(c) ==
    /\ call[c].pc = "update"
    /\ LET r == ConditionalUpdate(usage, call[c].key, call[c].day,
                                  Normalized(call[c]), call[c].atMs)
       IN  /\ usage' = r.table
           /\ call' = [call EXCEPT ![c].pc = "done",
                                   ![c].result = (r.changes > 0)]
    /\ UNCHANGED <<mlim, fn, sse, img, api_keys, now, tokens, req>>

Tick ==
    /\ now < StartMinute + MaxTicks
    /\ now' = now + 1
    /\ UNCHANGED <<mlim, fn, sse, img, api_keys, usage, call, tokens, req>>

(***************************************************************************)
(* Table api_keys and getApiKeyLimits.                                     *)
(***************************************************************************)
NoKey ==
    [exists |-> FALSE, is_active |-> 0, chat_limit |-> -1, heavy_limit |-> -1,
     image_limit |-> -1, video_limit |-> -1]

KeyRow(chat, heavy, image, video) ==
    [exists |-> TRUE, is_active |-> 1, chat_limit |-> chat, heavy_limit |-> heavy,
     image_limit |-> image, video_limit |-> video]

\* The limits an administrator may have given key k1.
KeyProfiles ==
    { KeyRow(1, 1, 2, 1), KeyRow(5, 0, 1, 0), KeyRow(0, 2, 3, -1),
      KeyRow(-1, -1, -1, -1) }

\* normalizeLimit(v) on a number: Math.max(-1, Math.floor(n))
normalizeLimit(v) == IF v < -1 THEN -1 ELSE v

\* updateApiKeyLimits(db, key, limits): returns false without a statement
\* when the key has no row; else one UPDATE that sets the limits given, each
\* normalised. limits maps some of the four limit columns to numbers.
updateApiKeyLimits(key, limits) ==
    /\ api_keys[key].exists
    /\ api_keys' = [api_keys EXCEPT ![key] =
            [col \in DOMAIN api_keys[key] |->
                IF col \in DOMAIN limits THEN normalizeLimit(limits[col])
                ELSE api_keys[key][col]]]
    /\ UNCHANGED <<mlim, fn, sse, img, usage, now, call, tokens, req>>

\* Variant: the key's usage rows go with the key.
deleteApiKey_Cascade(key) ==
    /\ api_keys[key].exists
    /\ api_keys' = [api_keys EXCEPT ![key] = NoKey]
    /\ usage' = [kd \in DOMAIN usage |-> IF kd[1] = key THEN NoRow ELSE usage[kd]]
    /\ UNCHANGED <<mlim, fn, sse, img, now, call, tokens, req>>

\* deleteApiKey(db, key): returns false without a statement when the key has
\* no row, else DELETE FROM api_keys WHERE key = ?.
deleteApiKey(key) ==
    /\ api_keys[key].exists
    /\ api_keys' = [api_keys EXCEPT ![key] = NoKey]
    /\ UNCHANGED <<mlim, fn, sse, img, usage, now, call, tokens, req>>

LimitField(field) ==
    CASE field = "chat_used" -> "chat_limit"
      [] field = "heavy_used" -> "heavy_limit"
      [] field = "image_used" -> "image_limit"
      [] field = "video_used" -> "video_limit"

\* getApiKeyLimits: null for a missing or inactive key, else the four limits.
getApiKeyLimits(keys, key) ==
    IF key \notin DOMAIN keys \/ ~keys[key].exists \/ keys[key].is_active = 0
    THEN [found |-> FALSE, chat_limit |-> -1, heavy_limit |-> -1,
          image_limit |-> -1, video_limit |-> -1]
    ELSE [found |-> TRUE, chat_limit |-> keys[key].chat_limit,
          heavy_limit |-> keys[key].heavy_limit,
          image_limit |-> keys[key].image_limit,
          video_limit |-> keys[key].video_limit]

(***************************************************************************)
(* Models (grok/models), settings and the credential pool (repo/tokens).   *)
(***************************************************************************)
MODEL_CONFIG ==
    [m \in {"grok-4", "grok-4-heavy", "grok-imagine-1.0", "grok-imagine-1.0-video"} |->
        [is_image_model |-> (m = "grok-imagine-1.0"),
         is_video_model |-> (m = "grok-imagine-1.0-video")]]

isValidModel(model) == model \in DOMAIN MODEL_CONFIG

isValidImageModel(model) ==
    isValidModel(model) /\ MODEL_CONFIG[model].is_image_model

DefaultRetryCodes == {401, 429}

\* settings.grok.retry_status_codes as an administrator may have stored it.
RetryCodeChoices == {DefaultRetryCodes, {401, 429, 500}}

IMAGE_METHOD_LEGACY == "legacy"
IMAGE_METHOD_IMAGINE_WS_EXPERIMENTAL == "imagine_ws_experimental"

Tokens == {"t1", "t2"}

\* Statuses of a non-success upstream response.
FailStatuses == {429, 500}

\* Cooldown lengths in minutes by class of failure: authentication failures
\* long, rate limits short, other failures brief.
CooldownAuth == 3
CooldownRateLimit == 2
CooldownOther == 1

CooldownMinutes(status) ==
    IF status = 401 THEN CooldownAuth
    ELSE IF status = 429 THEN CooldownRateLimit
    ELSE CooldownOther

Selectable_All(pool, at) == Tokens

\* The credentials selectBestToken may return: those not in cooldown.
Selectable(pool, at) == {t \in Tokens : pool[t].cooldown_until <= at}

recordTokenFailure(pool, token, status) ==
    [pool EXCEPT ![token].failed_count = @ + 1]

applyCooldown(pool, token, status, at) ==
    [pool EXCEPT ![token].cooldown_until = at + CooldownMinutes(status)]

(***************************************************************************)
(* enforceQuota.                                                           *)
(***************************************************************************)
Auths ==
    { [key |-> "k1", is_admin |-> FALSE],
      [key |-> "k2", is_admin |-> FALSE],
      [key |-> "", is_admin |-> TRUE] }

\* const quotaKind = cfg.is_video_model ? "video" : cfg.is_image_model ? "image" : "chat"
quotaKind(model) ==
    IF MODEL_CONFIG[model].is_video_model THEN "video"
    ELSE IF MODEL_CONFIG[model].is_image_model THEN "image"
    ELSE "chat"

Update(field, inc, limit) == [field |-> field, inc |-> inc, limit |-> limit]

\* Math.max(1, Math.floor(Number(imageCount ?? 1) || 1))
ImageInc(imageCount) == IF imageCount >= 1 THEN imageCount ELSE 1

\* The consumption enforceQuota asks for, by model and kind, and the bucket
\* its 429 names.
QuotaPlan(model, kind, imageCount, limits) ==
    IF model = "grok-4-heavy"
    THEN [multi |-> TRUE, bucket |-> "heavy/chat",
          args |-> <<Update("heavy_used", 1, limits.heavy_limit),
                     Update("chat_used", 1, limits.chat_limit)>>]
    ELSE IF kind = "video"
    THEN [multi |-> FALSE, bucket |-> "video",
          args |-> <<Update("video_used", 1, limits.video_limit)>>]
    ELSE IF kind = "image"
    THEN [multi |-> FALSE, bucket |-> "image",
          args |-> <<Update("image_used", ImageInc(imageCount), limits.image_limit)>>]
    ELSE [multi |-> FALSE, bucket |-> "chat",
          args |-> <<Update("chat_used", 1, limits.chat_limit)>>]

\* Variant: only the empty key is exempt.
QuotaExempt_KeyOnly(auth) == auth.key = ""

\* enforceQuota returns ok at once for an empty key or an administrator.
QuotaExempt(auth) == auth.key = "" \/ auth.is_admin

(***************************************************************************)
(* Handler frames.                                                         *)
(***************************************************************************)
Reqs == 1..NumClients

NoResponse == [status |-> 0, code |-> ""]
NoFail == [kind |-> "none", status |-> 0]

\* The three mapLimit calls of the image handlers.
Jobs == {"gen_legacy", "edit_exp", "edit_legacy"}

IdleMap == [w |-> <<>>, queue |-> [j \in Jobs |-> 0]]

IdleReq ==
    [pc |-> "idle", endpoint |-> "", auth |-> [key |-> "", is_admin |-> FALSE],
     model |-> "", stream |-> FALSE, n |-> 1, images |-> 0,
     retryCodes |-> {}, imageMethod |-> "", files |-> <<>>, fileIdx |-> 1,
     moderated |-> FALSE, after |-> "", job |-> "",
     expFailed |-> FALSE, expMod |-> FALSE, legacy |-> FALSE,
     ml |-> IdleMap,
     q |-> IdleCall, bucket |-> "", quota |-> "none",
     attempt |-> 0, chosen |-> "", inflight |-> {}, lastFail |-> NoFail,
     consumed |-> 0, selected |-> FALSE, uploaded |-> FALSE, sent |-> FALSE,
     callFails |-> 0, callsOk |-> 0, failures |-> 0, cooldowns |-> 0, cooled |-> {},
     logs |-> <<>>, response |-> NoResponse]

Respond(f, status, code) ==
    [f EXCEPT !.pc = "done", !.response = [status |-> status, code |-> code]]

Log(f, status) == [f EXCEPT !.logs = Append(@, status)]

maxRetry_Four == 3 + 1

maxRetry == 3

LoopHead_BeforeQuota == "quota_limits"

\* Where `continue` resumes: the first statement of the attempt loop's body,
\* selectBestToken.
LoopHead == "select"

(***************************************************************************)
(* mapLimit(items, limit, fn): Math.max(1, limit) workers drain one queue; *)
(* the handler awaits Promise.all(workers), which rejects as soon as one   *)
(* worker rejects while the other workers keep running.                    *)
(***************************************************************************)
Max(a, b) == IF a >= b THEN a ELSE b
Least(a, b) == IF a <= b THEN a ELSE b

\* The first await of fn: the legacy generation call selects its own token,
\* the edit calls go straight to the upstream with the handler's cookie.
FirstPc(job) == IF job = "gen_legacy" THEN "select" ELSE "call"

\* The workers of one mapLimit call, each run up to its first await: the
\* first min(workers, items) have taken an item, the others found the queue
\* empty and finished.
NewWorkers(job, items, limit, token) ==
    [i \in 1..Max(1, limit) |->
        [job |-> job, token |-> token, mod |-> FALSE, threw |-> FALSE,
         pc |-> IF i <= items THEN FirstPc(job) ELSE "finished"]]

MapStart(ml, job, items, limit, token) ==
    [w |-> ml.w \o NewWorkers(job, items, limit, token),
     queue |-> [ml.queue EXCEPT ![job] = items - Least(items, Max(1, limit))]]

WorkersOf(ml, job) == {i \in 1..Len(ml.w) : ml.w[i].job = job}
Rejected(ml, job) == \E i \in WorkersOf(ml, job) : ml.w[i].pc = "dead"
AllFinished(ml, job) == \A i \in WorkersOf(ml, job) : ml.w[i].pc = "finished"

\* Math.ceil(n / 2)
LegacyCalls(n) == (n + 1) \div 2

MapLimitImages == 3

(***************************************************************************)
(* POST /images/generations and POST /images/edits.                        *)
(***************************************************************************)
\* Math.max(1, Math.min(10, Math.floor(raw)))
parseImageCount(raw) == Max(1, Least(10, raw))

MaxEditFiles == 16

\* The legacy strategy of /images/generations: one streaming call behind a
\* token selection, or mapLimit over ceil(n / 2) calls.
GenLegacyEntry(f) ==
    IF f.stream THEN [f EXCEPT !.pc = "leg_select", !.legacy = TRUE]
    ELSE [f EXCEPT !.pc = "map_wait", !.job = "gen_legacy", !.legacy = TRUE,
                   !.ml = MapStart(f.ml, "gen_legacy", LegacyCalls(f.n),
                                   MapLimitImages, "")]

\* The legacy strategy of /images/edits, with the handler's credential.
EditLegacyEntry(f) ==
    IF f.stream THEN [f EXCEPT !.pc = "leg_call", !.legacy = TRUE]
    ELSE [f EXCEPT !.pc = "map_wait", !.job = "edit_legacy", !.legacy = TRUE,
                   !.ml = MapStart(f.ml, "edit_legacy", LegacyCalls(f.n),
                                   MapLimitImages, f.chosen)]

\* What /images/edits does once every file is uploaded.
EditAfterFiles(f) ==
    IF f.imageMethod = IMAGE_METHOD_IMAGINE_WS_EXPERIMENTAL
    THEN (IF f.stream THEN [f EXCEPT !.pc = "exp_call"]
          ELSE [f EXCEPT !.pc = "map_wait", !.job = "edit_exp",
                         !.ml = MapStart(f.ml, "edit_exp", LegacyCalls(f.n),
                                         MapLimitImages, f.chosen)])
    ELSE EditLegacyEntry(f)

\* The statement after `if (!quota.ok) return quota.resp`.
AfterQuotaPc(f) ==
    IF f.endpoint = "chat" THEN [f EXCEPT !.pc = "select"]
    ELSE IF f.endpoint = "edits" THEN [f EXCEPT !.pc = "select"]
    ELSE IF f.imageMethod = IMAGE_METHOD_IMAGINE_WS_EXPERIMENTAL
    THEN [f EXCEPT !.pc = "exp_select"]
    ELSE GenLegacyEntry(f)

\* The catch block of the image handlers: a 400 for a moderated message,
\* else a 500, each with one request log.
ImageCatch(f) ==
    IF f.moderated THEN Respond(Log(f, 400), 400, "content_policy_violation")
    ELSE Respond(Log(f, 500), 500, "internal_error")

\* Where a handler goes once enforceQuota has returned ok.
AfterQuota(f) == AfterQuotaPc([f EXCEPT !.quota = "ok"])

\* enforceQuota up to its first await.
EnterQuota(f) ==
    IF QuotaExempt(f.auth) THEN AfterQuota(f)
    ELSE [f EXCEPT !.pc = "quota_limits"]

\* Variant: every image request weighs one upstream batch of two.
ImageCountArg_Batch(f) ==
    IF f.endpoint = "chat"
    THEN (IF MODEL_CONFIG[f.model].is_image_model THEN 2 ELSE 0)
    ELSE 2

\* The imageCount a handler passes to enforceQuota.
ImageCountArg(f) ==
    IF f.endpoint = "chat"
    THEN (IF MODEL_CONFIG[f.model].is_image_model THEN 2 ELSE 0)
    ELSE f.n

KindArg(f) == IF f.endpoint = "chat" THEN quotaKind(f.model) ELSE "image"

(***************************************************************************)
(* POST /chat/completions.                                                 *)
(***************************************************************************)
\* The handler up to its first await on the store: validation, getSettings,
\* and the synchronous prefix of enforceQuota.
StartChat(r, auth, model, messagesOk, stream, images, retryCodes) ==
    /\ req[r].pc = "idle"
    /\ LET f == [IdleReq EXCEPT !.endpoint = "chat", !.auth = auth,
                                !.model = model, !.stream = stream,
                                !.images = images]
           g == [f EXCEPT !.retryCodes = retryCodes]
       IN  req' = [req EXCEPT ![r] =
                IF model = "" THEN Respond(f, 400, "missing_model")
                ELSE IF ~messagesOk THEN Respond(f, 400, "missing_messages")
                ELSE IF ~isValidModel(model) THEN Respond(f, 400, "model_not_supported")
                ELSE EnterQuota(g)]
    /\ UNCHANGED <<mlim, fn, sse, img, api_keys, usage, now, call, tokens>>

\* const limits = await getApiKeyLimits(db, key); then day, atMs and the
\* synchronous prefix of tryConsumeDailyUsage / tryConsumeDailyUsageMulti.
QuotaLimits(r) ==
    /\ req[r].pc = "quota_limits"
    /\ LET f == req[r]
           limits == getApiKeyLimits(api_keys, f.auth.key)
           plan == QuotaPlan(f.model, KindArg(f), ImageCountArg(f), limits)
           q == Enter(plan.multi, f.auth.key,
                      localDayString(now, DefaultTzOffsetMinutes), plan.args, now)
       IN  req' = [req EXCEPT ![r] =
                IF ~limits.found THEN AfterQuota(f)
                ELSE IF q.pc = "done" THEN AfterQuota([f EXCEPT !.q = q, !.bucket = plan.bucket])
                ELSE [f EXCEPT !.q = q, !.bucket = plan.bucket, !.pc = "quota_ensure"]]
    /\ UNCHANGED <<mlim, fn, sse, img, api_keys, usage, now, call, tokens>>

QuotaRejected_FallThrough(f) == AfterQuotaPc([f EXCEPT !.quota = "rejected"])

\* if (!quota.ok) return quota.resp: the 429 of quotaError.
QuotaRejected(f) ==
    Respond([f EXCEPT !.quota = "rejected"], 429, "daily_quota_exceeded")

\* await ensureUsageRow(db, key, day, atMs)
QuotaEnsure(r) ==
    /\ req[r].pc = "quota_ensure"
    /\ usage' = ensureUsageRow(usage, req[r].q.key, req[r].q.day, req[r].q.atMs)
    /\ req' = [req EXCEPT ![r].pc = "quota_update", ![r].q.pc = "update"]
    /\ UNCHANGED <<mlim, fn, sse, img, api_keys, now, call, tokens>>

\* The conditional UPDATE; if (!ok) return 429 quotaError(bucket).
QuotaUpdate(r) ==
    /\ req[r].pc = "quota_update"
    /\ LET f == req[r]
           res == ConditionalUpdate(usage, f.q.key, f.q.day, Normalized(f.q), f.q.atMs)
           g == [f EXCEPT !.q.pc = "done", !.q.result = (res.changes > 0),
                          !.consumed = @ + res.changes]
       IN  /\ usage' = res.table
           /\ req' = [req EXCEPT ![r] =
                    IF res.changes > 0 THEN AfterQuota(g)
                    ELSE QuotaRejected(g)]
    /\ UNCHANGED <<mlim, fn, sse, img, api_keys, now, call, tokens>>

\* const chosen = await selectBestToken(db, model); if (!chosen) return 503
ChatSelect(r) ==
    /\ req[r].pc = "select"
    /\ req[r].endpoint = "chat"
    /\ LET f == [req[r] EXCEPT !.selected = TRUE]
       IN  \/ /\ Selectable(tokens, now) = {}
              /\ req' = [req EXCEPT ![r] = Respond(f, 503, "NO_AVAILABLE_TOKEN")]
           \/ \E t \in Selectable(tokens, now) :
                 req' = [req EXCEPT ![r] =
                    [f EXCEPT !.chosen = t,
                              !.pc = IF f.images > 0 THEN "upload"
                                     ELSE IF MODEL_CONFIG[f.model].is_video_model THEN "post"
                                     ELSE "send"]]
    /\ UNCHANGED <<mlim, fn, sse, img, api_keys, usage, now, call, tokens>>

Thrown_SkipRecord(f) ==
    [f EXCEPT !.pc = "fail_cooldown", !.inflight = {}, !.callFails = @ + 1,
              !.lastFail = [kind |-> "thrown", status |-> 500]]

\* An error thrown inside the attempt's try block: catch (e) { lastErr = msg }
Thrown(f) ==
    [f EXCEPT !.pc = "fail_record", !.inflight = {}, !.callFails = @ + 1,
              !.lastFail = [kind |-> "thrown", status |-> 500]]

\* const uploads = await mapLimit(imgInputs, 5, uploadImage): a video model
\* uploads only the first image.
ChatUpload(r, ok) ==
    /\ req[r].pc = "upload"
    /\ req[r].endpoint = "chat"
    /\ LET f == [req[r] EXCEPT !.uploaded = TRUE]
       IN  req' = [req EXCEPT ![r] =
                IF ~ok THEN Thrown(f)
                ELSE [f EXCEPT !.pc = IF MODEL_CONFIG[f.model].is_video_model
                                      THEN "post" ELSE "send"]]
    /\ UNCHANGED <<mlim, fn, sse, img, api_keys, usage, now, call, tokens>>

\* await createPost(...) / createMediaPost(...) for a video model
ChatCreatePost(r, ok) ==
    /\ req[r].pc = "post"
    /\ LET f == [req[r] EXCEPT !.sent = TRUE]
       IN  req' = [req EXCEPT ![r] =
                IF ok THEN [f EXCEPT !.pc = "send"] ELSE Thrown(f)]
    /\ UNCHANGED <<mlim, fn, sse, img, api_keys, usage, now, call, tokens>>

\* sendConversationRequest({payload, cookie, ...}) goes out with the chosen
\* credential's cookie.
ChatSend(r) ==
    /\ req[r].pc = "send"
    /\ req[r].endpoint = "chat"
    /\ req' = [req EXCEPT ![r].pc = "wait", ![r].sent = TRUE,
                          ![r].inflight = @ \cup {req[r].chosen}]
    /\ UNCHANGED <<mlim, fn, sse, img, api_keys, usage, now, call, tokens>>

\* The upstream answers: a success, a non-success status, or the fetch throws.
ChatReceive(r, outcome) ==
    /\ req[r].pc = "wait"
    /\ req[r].endpoint = "chat"
    /\ LET f == [req[r] EXCEPT !.inflight = {}]
       IN  req' = [req EXCEPT ![r] =
                IF outcome = 0 THEN Thrown(f)
                ELSE IF outcome = 200
                THEN [f EXCEPT !.pc = IF f.stream THEN "streaming" ELSE "parse"]
                ELSE [f EXCEPT !.pc = "fail_record", !.callFails = @ + 1,
                               !.lastFail = [kind |-> "response", status |-> outcome]]]
    /\ UNCHANGED <<mlim, fn, sse, img, api_keys, usage, now, call, tokens>>

\* await recordTokenFailure(db, jwt, status, text)
ChatRecordFailure(r) ==
    /\ req[r].pc = "fail_record"
    /\ req[r].endpoint = "chat"
    /\ tokens' = recordTokenFailure(tokens, req[r].chosen, req[r].lastFail.status)
    /\ req' = [req EXCEPT ![r].pc = "fail_cooldown", ![r].failures = @ + 1]
    /\ UNCHANGED <<mlim, fn, sse, img, api_keys, usage, now, call>>

RetryDecision_StatusOnly(fail, attempt, retryCodes) ==
    fail.status \in retryCodes /\ attempt < maxRetry - 1

\* if (retryCodes.includes(upstream.status) && attempt < maxRetry - 1) continue;
\* and in the catch block: if (attempt < maxRetry - 1) continue;
RetryDecision(fail, attempt, retryCodes) ==
    IF fail.kind = "response"
    THEN fail.status \in retryCodes /\ attempt < maxRetry - 1
    ELSE attempt < maxRetry - 1

\* await applyCooldown(db, jwt, status); then continue, break, or leave the
\* loop because attempt reached maxRetry.
ChatApplyCooldown(r) ==
    /\ req[r].pc = "fail_cooldown"
    /\ req[r].endpoint = "chat"
    /\ tokens' = applyCooldown(tokens, req[r].chosen, req[r].lastFail.status, now)
    /\ LET f == [req[r] EXCEPT !.cooldowns = @ + 1, !.cooled = @ \cup {req[r].chosen}]
       IN  req' = [req EXCEPT ![r] =
                IF RetryDecision(f.lastFail, f.attempt, f.retryCodes)
                THEN [f EXCEPT !.attempt = @ + 1, !.pc = LoopHead]
                ELSE [f EXCEPT !.pc = "exhausted"]]
    /\ UNCHANGED <<mlim, fn, sse, img, api_keys, usage, now, call>>

\* const json = await parseOpenAiFromGrokNdjson(upstream, ...)
ChatParse(r, ok) ==
    /\ req[r].pc = "parse"
    /\ req' = [req EXCEPT ![r] =
                IF ok THEN [req[r] EXCEPT !.pc = "log_ok"] ELSE Thrown(req[r])]
    /\ UNCHANGED <<mlim, fn, sse, img, api_keys, usage, now, call, tokens>>

\* await addRequestLog(..., status: 200, ...); return c.json(json)
LogOk(r) ==
    /\ req[r].pc = "log_ok"
    /\ req' = [req EXCEPT ![r] = Respond(Log(req[r], 200), 200, "")]
    /\ UNCHANGED <<mlim, fn, sse, img, api_keys, usage, now, call, tokens>>

\* return new Response(sse, {status: 200}); the converter's onFinish writes
\* the request log when the stream ends.
StreamFinish(r, status) ==
    /\ req[r].pc = "streaming"
    /\ req' = [req EXCEPT ![r] = Respond(Log(req[r], status), 200, "")]
    /\ UNCHANGED <<mlim, fn, sse, img, api_keys, usage, now, call, tokens>>

\* After the loop: addRequestLog(status 500), return 500 upstream_error.
ChatExhausted(r) ==
    /\ req[r].pc = "exhausted"
    /\ req[r].endpoint = "chat"
    /\ req' = [req EXCEPT ![r] = Respond(Log(req[r], 500), 500, "upstream_error")]
    /\ UNCHANGED <<mlim, fn, sse, img, api_keys, usage, now, call, tokens>>

\* The shared checks without the one on stream and n.
ImageValidation_NoStreamCheck(endpoint, promptOk, model, n, stream, files, formatOk) ==
    IF ~promptOk THEN "missing_prompt"
    ELSE IF ~isValidModel(model) THEN "model_not_supported"
    ELSE IF ~isValidImageModel(model) THEN "invalid_model"
    ELSE IF endpoint = "edits" /\ Len(files) = 0 THEN "missing_image"
    ELSE IF endpoint = "edits" /\ Len(files) > MaxEditFiles THEN "invalid_image_count"
    ELSE IF ~formatOk THEN "invalid_response_format"
    ELSE ""

\* Checks shared by both image handlers, in the order of the code; "" when
\* the request passes.
ImageValidation(endpoint, promptOk, model, n, stream, files, formatOk) ==
    IF ~promptOk THEN "missing_prompt"
    ELSE IF ~isValidModel(model) THEN "model_not_supported"
    ELSE IF ~isValidImageModel(model) THEN "invalid_model"
    ELSE IF stream /\ n \notin {1, 2} THEN "invalid_stream_n"
    ELSE IF endpoint = "edits" /\ Len(files) = 0 THEN "missing_image"
    ELSE IF endpoint = "edits" /\ Len(files) > MaxEditFiles THEN "invalid_image_count"
    ELSE IF ~formatOk THEN "invalid_response_format"
    ELSE ""

StartImage(r, endpoint, auth, promptOk, model, rawN, stream, files, formatOk, method) ==
    /\ req[r].pc = "idle"
    /\ LET n == parseImageCount(rawN)
           bad == ImageValidation(endpoint, promptOk, model, n, stream, files, formatOk)
           f == [IdleReq EXCEPT !.endpoint = endpoint, !.auth = auth, !.model = model,
                                !.n = n, !.stream = stream, !.files = files,
                                !.imageMethod = method]
       IN  req' = [req EXCEPT ![r] =
                IF bad # "" THEN Respond([f EXCEPT !.imageMethod = ""], 400, bad)
                ELSE EnterQuota(f)]
    /\ UNCHANGED <<mlim, fn, sse, img, api_keys, usage, now, call, tokens>>

\* POST /images/generations: experimentalToken = await selectBestToken(...);
\* without a token the handler goes on to the legacy strategy.
GenExpSelect(r) ==
    /\ req[r].pc = "exp_select"
    /\ LET f == [req[r] EXCEPT !.selected = TRUE]
       IN  \/ /\ Selectable(tokens, now) = {}
              /\ req' = [req EXCEPT ![r] = GenLegacyEntry(f)]
           \/ \E t \in Selectable(tokens, now) :
                 req' = [req EXCEPT ![r] = [f EXCEPT !.chosen = t, !.pc = "exp_call"]]
    /\ UNCHANGED <<mlim, fn, sse, img, api_keys, usage, now, call, tokens>>

\* What the experimental upstream may do: deliver images, deliver none, or
\* fail (a thrown error).
ExpOutcomes == {"images", "empty", "throw"}

\* The experimental call with the chosen credential.
\* /images/generations: collectExperimentalGenerationImages throws when the
\* upstream fails or delivers no image; the catch records the failure,
\* applies the cooldown and falls back to legacy.
\* /images/edits, stream: only a throw of sendExperimentalImageEditRequest
\* reaches the catch; any response it returns is handed to
\* createImageEventStream and streamed with status 200.
\* mod: the thrown error carries the content-moderation text.
ExpCall(r, outcome, mod) ==
    /\ req[r].pc = "exp_call"
    /\ mod => outcome = "throw"
    /\ LET f == [req[r] EXCEPT !.sent = TRUE, !.expFailed = (outcome # "images"),
                               !.expMod = mod]
           caught == outcome = "throw" \/ (outcome = "empty" /\ f.endpoint = "generations")
       IN  req' = [req EXCEPT ![r] =
                IF caught
                THEN [f EXCEPT !.pc = "fail_record", !.callFails = @ + 1,
                               !.lastFail = [kind |-> "thrown", status |-> 500],
                               !.after = "legacy"]
                ELSE [f EXCEPT !.pc = IF f.stream THEN "streaming" ELSE "log_ok"]]
    /\ UNCHANGED <<mlim, fn, sse, img, api_keys, usage, now, call, tokens>>

\* const chosen = await selectBestToken(...); if (!chosen) return 503: the
\* legacy streaming call of generations, and the one selection of edits.
ImageSelect(r) ==
    /\ req[r].pc \in {"leg_select", "select"}
    /\ req[r].endpoint \in {"generations", "edits"}
    /\ LET f == [req[r] EXCEPT !.selected = TRUE]
       IN  \/ /\ Selectable(tokens, now) = {}
              /\ req' = [req EXCEPT ![r] = Respond(f, 503, "NO_AVAILABLE_TOKEN")]
           \/ \E t \in Selectable(tokens, now) :
                 req' = [req EXCEPT ![r] =
                    [f EXCEPT !.chosen = t,
                              !.pc = IF f.endpoint = "edits" THEN "files" ELSE "leg_call"]]
    /\ UNCHANGED <<mlim, fn, sse, img, api_keys, usage, now, call, tokens>>

\* The body of `for (const file of files)`: size and type checks of this
\* file, then its upload; after the last file the handler goes on.
EditFile(r, ok, mod) ==
    /\ req[r].pc = "files"
    /\ LET f == req[r]
           kind == f.files[f.fileIdx]
           g == [f EXCEPT !.uploaded = TRUE, !.fileIdx = @ + 1]
       IN  req' = [req EXCEPT ![r] =
                IF kind = "empty" THEN Respond(f, 400, "empty_file")
                ELSE IF kind = "big" THEN Respond(f, 400, "file_too_large")
                ELSE IF kind = "type" THEN Respond(f, 400, "invalid_image_type")
                ELSE IF ~ok THEN ImageCatch([f EXCEPT !.uploaded = TRUE, !.moderated = mod,
                                                      !.callFails = @ + 1])
                ELSE IF g.fileIdx > Len(g.files) THEN EditAfterFiles(g)
                ELSE g]
    /\ UNCHANGED <<mlim, fn, sse, img, api_keys, usage, now, call, tokens>>

\* runImageStreamCall with the chosen credential: the fetch throws (outer
\* catch), answers a non-success status, or answers 200.
LegacyStreamCall(r, outcome, mod) ==
    /\ req[r].pc = "leg_call"
    /\ LET f == [req[r] EXCEPT !.sent = TRUE]
       IN  req' = [req EXCEPT ![r] =
                IF outcome = 0
                THEN ImageCatch([f EXCEPT !.moderated = mod, !.callFails = @ + 1])
                ELSE IF outcome = 200 THEN [f EXCEPT !.pc = "streaming"]
                ELSE [f EXCEPT !.pc = "fail_record", !.moderated = mod,
                               !.callFails = @ + 1,
                               !.lastFail = [kind |-> "response", status |-> outcome],
                               !.after = "fail_log"]]
    /\ UNCHANGED <<mlim, fn, sse, img, api_keys, usage, now, call, tokens>>

\* await recordTokenFailure(db, token, status, text) in an image handler
ImageRecordFailure(r) ==
    /\ req[r].pc = "fail_record"
    /\ req[r].endpoint \in {"generations", "edits"}
    /\ tokens' = recordTokenFailure(tokens, req[r].chosen, req[r].lastFail.status)
    /\ req' = [req EXCEPT ![r].pc = "fail_cooldown", ![r].failures = @ + 1]
    /\ UNCHANGED <<mlim, fn, sse, img, api_keys, usage, now, call>>

\* await applyCooldown(db, token, status) in an image handler, then the
\* fallback to the legacy strategy or the error response.
ImageApplyCooldown(r) ==
    /\ req[r].pc = "fail_cooldown"
    /\ req[r].endpoint \in {"generations", "edits"}
    /\ tokens' = applyCooldown(tokens, req[r].chosen, req[r].lastFail.status, now)
    /\ LET f == [req[r] EXCEPT !.cooldowns = @ + 1, !.cooled = @ \cup {req[r].chosen},
                               !.after = ""]
       IN  req' = [req EXCEPT ![r] =
                IF req[r].after = "fail_log" THEN [f EXCEPT !.pc = "fail_log"]
                ELSE IF f.endpoint = "edits" THEN EditLegacyEntry(f)
                ELSE GenLegacyEntry(f)]
    /\ UNCHANGED <<mlim, fn, sse, img, api_keys, usage, now, call>>

\* await recordImageLog({status: upstream.status, ...}); then 400
\* content_policy_violation or 500 upstream_error.
LegacyFailLog(r) ==
    /\ req[r].pc = "fail_log"
    /\ LET f == Log(req[r], req[r].lastFail.status)
       IN  req' = [req EXCEPT ![r] =
                IF f.moderated THEN Respond(f, 400, "content_policy_violation")
                ELSE Respond(f, 500, "upstream_error")]
    /\ UNCHANGED <<mlim, fn, sse, img, api_keys, usage, now, call, tokens>>

\* The handler resumes from `await mapLimit(...)` when a worker of its
\* current job rejects or the last one finishes.
Settle(f) ==
    IF f.pc # "map_wait" THEN f
    ELSE IF Rejected(f.ml, f.job)
    THEN (IF f.job = "edit_exp"
          THEN LET i == CHOOSE j \in WorkersOf(f.ml, f.job) : f.ml.w[j].pc = "dead"
               IN  [f EXCEPT !.pc = "fail_record", !.expFailed = TRUE,
                             !.expMod = f.ml.w[i].mod,
                             !.lastFail = [kind |-> "thrown", status |-> 500],
                             !.after = "legacy"]
          ELSE LET i == CHOOSE j \in WorkersOf(f.ml, f.job) : f.ml.w[j].pc = "dead"
               IN  ImageCatch([f EXCEPT !.moderated = f.ml.w[i].mod]))
    ELSE IF AllFinished(f.ml, f.job)
    THEN [f EXCEPT !.pc = IF f.job = "edit_exp" THEN "exp_check" ELSE "log_ok"]
    ELSE f

\* if (!urls.length) throw new Error("Experimental image edit returned no
\* images"), inside the try of the experimental edit.
ExpEditCheck(r, nonEmpty) ==
    /\ req[r].pc = "exp_check"
    /\ req' = [req EXCEPT ![r] =
            IF nonEmpty THEN [req[r] EXCEPT !.pc = "log_ok"]
            ELSE [req[r] EXCEPT !.pc = "fail_record", !.expFailed = TRUE,
                                !.lastFail = [kind |-> "thrown", status |-> 500],
                                !.after = "legacy"]]
    /\ UNCHANGED <<mlim, fn, sse, img, api_keys, usage, now, call, tokens>>

\* A worker whose fn resolved takes the next item of its queue, or finishes.
WorkerNext(ml, i) ==
    LET job == ml.w[i].job
    IN  IF ml.queue[job] > 0
        THEN [ml EXCEPT !.queue[job] = @ - 1, !.w[i].pc = FirstPc(job)]
        ELSE [ml EXCEPT !.w[i].pc = "finished"]

\* const chosen = await selectBestToken(...);
\* if (!chosen) throw new Error("No available token")
WorkerSelect(r, i) ==
    /\ i \in 1..Len(req[r].ml.w)
    /\ req[r].ml.w[i].pc = "select"
    /\ LET f == [req[r] EXCEPT !.selected = TRUE]
       IN  \/ /\ Selectable(tokens, now) = {}
              /\ req' = [req EXCEPT ![r] = Settle([f EXCEPT !.ml.w[i].pc = "dead"])]
           \/ \E t \in Selectable(tokens, now) :
                 req' = [req EXCEPT ![r] =
                            [f EXCEPT !.ml.w[i].token = t, !.ml.w[i].pc = "call"]]
    /\ UNCHANGED <<mlim, fn, sse, img, api_keys, usage, now, call, tokens>>

\* runImageCall / runExperimentalImageEditCall inside mapLimit: resolves, or
\* throws; the legacy generation call records the failure before rethrowing.
WorkerCall(r, i, ok, mod) ==
    /\ i \in 1..Len(req[r].ml.w)
    /\ req[r].ml.w[i].pc = "call"
    /\ LET f == [req[r] EXCEPT !.sent = TRUE]
       IN  req' = [req EXCEPT ![r] =
                IF ok THEN Settle([f EXCEPT !.ml = WorkerNext(f.ml, i),
                                            !.callsOk = @ + 1])
                ELSE IF f.ml.w[i].job = "gen_legacy"
                THEN [f EXCEPT !.ml.w[i].pc = "fail_record", !.ml.w[i].mod = mod,
                               !.ml.w[i].threw = TRUE, !.callFails = @ + 1]
                ELSE Settle([f EXCEPT !.ml.w[i].pc = "dead", !.ml.w[i].mod = mod,
                                      !.ml.w[i].threw = TRUE, !.callFails = @ + 1])]
    /\ UNCHANGED <<mlim, fn, sse, img, api_keys, usage, now, call, tokens>>

\* await recordTokenFailure(db, chosen.token, 500, msg) in the worker
WorkerRecordFailure(r, i) ==
    /\ i \in 1..Len(req[r].ml.w)
    /\ req[r].ml.w[i].pc = "fail_record"
    /\ tokens' = recordTokenFailure(tokens, req[r].ml.w[i].token, 500)
    /\ req' = [req EXCEPT ![r].ml.w[i].pc = "fail_cooldown", ![r].failures = @ + 1]
    /\ UNCHANGED <<mlim, fn, sse, img, api_keys, usage, now, call>>

\* await applyCooldown(db, chosen.token, 500); throw e
WorkerApplyCooldown(r, i) ==
    /\ i \in 1..Len(req[r].ml.w)
    /\ req[r].ml.w[i].pc = "fail_cooldown"
    /\ tokens' = applyCooldown(tokens, req[r].ml.w[i].token, 500, now)
    /\ req' = [req EXCEPT ![r] =
            Settle([req[r] EXCEPT !.cooldowns = @ + 1,
                                  !.cooled = @ \cup {req[r].ml.w[i].token},
                                  !.ml.w[i].pc = "dead"])]
    /\ UNCHANGED <<mlim, fn, sse, img, api_keys, usage, now, call>>

ImageModelInputs == {"grok-imagine-1.0", "grok-4", "gpt-4"}
ImageCountInputs == {1, 3}
FileInputs == {<<>>, <<"ok">>, <<"ok", "empty">>, [i \in 1..(MaxEditFiles + 1) |-> "ok"]}
ImageMethods == {IMAGE_METHOD_LEGACY, IMAGE_METHOD_IMAGINE_WS_EXPERIMENTAL}

ChatModelInputs == DOMAIN MODEL_CONFIG \cup {"", "gpt-4"}

(***************************************************************************)
(* mapLimit(items, limit, fn).                                             *)
(***************************************************************************)
MaxItems == 3

\* The limit of the media uploads of a chat completion.
ChatUploadLimit == 5

MapLimits == {0, 1, 2, ChatUploadLimit}

\* Items are named by their index in the input; fn(item i) resolves to i.
IdleMapLimit ==
    [pc |-> "idle", items |-> 0, limit |-> 0, queue |-> <<>>, workers |-> <<>>,
     started |-> <<>>, results |-> <<>>, returned |-> <<>>]

\* One pass of a worker from the head of its loop to its next await:
\* while (queue.length) { item = queue.shift(); ... await fn(item) }.
WorkerLoop(m, w) ==
    IF m.queue # <<>>
    THEN [m EXCEPT !.queue = Tail(@),
                   !.started = Append(@, Head(m.queue)),
                   !.workers[w] = [pc |-> "awaiting", item |-> Head(m.queue)]]
    ELSE [m EXCEPT !.workers[w] = [pc |-> "finished", item |-> 0]]

\* Array.from({ length }, async () => ...): each worker runs to its first
\* await as it is created, in order.
RECURSIVE CreateWorkers(_, _)
CreateWorkers(m, w) ==
    IF w > Len(m.workers) THEN m ELSE CreateWorkers(WorkerLoop(m, w), w + 1)

\* Variant: one worker per item, Promise.all(items.map(fn)).
mapLimit_Unbounded(items, limit) ==
    /\ mlim.pc = "idle"
    /\ mlim' = CreateWorkers(
           [IdleMapLimit EXCEPT !.pc = "running", !.items = items, !.limit = limit,
                                !.queue = [i \in 1..items |-> i],
                                !.workers = [w \in 1..Max(1, items) |->
                                                [pc |-> "new", item |-> 0]]], 1)
    /\ UNCHANGED <<fn, sse, img, api_keys, usage, now, call, tokens, req>>

mapLimit(items, limit) ==
    /\ mlim.pc = "idle"
    /\ mlim' = CreateWorkers(
           [IdleMapLimit EXCEPT !.pc = "running", !.items = items, !.limit = limit,
                                !.queue = [i \in 1..items |-> i],
                                !.workers = [w \in 1..Max(1, limit) |->
                                                [pc |-> "new", item |-> 0]]], 1)
    /\ UNCHANGED <<fn, sse, img, api_keys, usage, now, call, tokens, req>>

\* fn(item) of worker w resolves: results.push(value), then the loop again.
FnResolve(w) ==
    /\ w \in DOMAIN mlim.workers
    /\ mlim.workers[w].pc = "awaiting"
    /\ mlim' = WorkerLoop([mlim EXCEPT !.results = Append(@, mlim.workers[w].item)], w)
    /\ UNCHANGED <<fn, sse, img, api_keys, usage, now, call, tokens, req>>

\* fn(item) of worker w rejects: the worker's promise rejects and with it
\* Promise.all(workers), so the pending mapLimit call rejects. The other
\* workers are not told.
FnReject(w) ==
    /\ w \in DOMAIN mlim.workers
    /\ mlim.workers[w].pc = "awaiting"
    /\ mlim' = [mlim EXCEPT !.workers[w].pc = "rejected",
                            !.pc = IF @ = "running" THEN "rejected" ELSE @]
    /\ UNCHANGED <<fn, sse, img, api_keys, usage, now, call, tokens, req>>

\* await Promise.all(workers) resolves when every worker has finished;
\* return results.
MapReturn ==
    /\ mlim.pc = "running"
    /\ \A w \in DOMAIN mlim.workers : mlim.workers[w].pc = "finished"
    /\ mlim' = [mlim EXCEPT !.pc = "resolved", !.returned = mlim.results]
    /\ UNCHANGED <<fn, sse, img, api_keys, usage, now, call, tokens, req>>

(***************************************************************************)
(* Specifications.                                                         *)
(***************************************************************************)
(***************************************************************************)
(* pickImageResults(images, n).                                            *)
(***************************************************************************)
MaxResults == 3
MaxPick == 4

\* Result strings as the callers deliver them: non-empty (filter(Boolean)).
ResultValues == {"a", "b"}

RECURSIVE SeqsUpTo(_, _)
SeqsUpTo(S, k) ==
    IF k = 0 THEN {<<>>}
    ELSE LET shorter == SeqsUpTo(S, k - 1)
         IN  shorter \cup {Append(q, x) : q \in {t \in shorter : Len(t) = k - 1}, x \in S}

ResultLists == SeqsUpTo(ResultValues, MaxResults)

RemoveAt(q, i) == SubSeq(q, 1, i - 1) \o SubSeq(q, i + 1, Len(q))

\* while (picked.length < n) picked.push("error")
PadErrors(q, n) == q \o [i \in 1..(n - Len(q)) |-> "error"]

\* No helper call in progress. pool and picked are the locals of
\* pickImageResults; poolPos and pickedPos remember, for each entry, its
\* position in the input.
IdleImg ==
    [pc |-> "idle", images |-> <<>>, n |-> 0, pool |-> <<>>, poolPos |-> <<>>,
     picked |-> <<>>, pickedPos |-> <<>>]

PickIndices_First(pool) == {1}

\* Math.floor(Math.random() * pool.length), as a 1-based index
PickIndices(pool) == 1..Len(pool)

\* while (picked.length < n && pool.length)
PickLoopPc(picked, pool, n) ==
    IF Len(picked) < n /\ Len(pool) > 0 THEN "loop" ELSE "done"

\* pickImageResults up to its loop: enough images, copy them into pool;
\* else return them padded with "error".
PickStart(images, n) ==
    /\ img.pc = "idle"
    /\ img' =
          IF Len(images) >= n
          THEN [IdleImg EXCEPT !.images = images, !.n = n, !.pool = images,
                               !.poolPos = [i \in 1..Len(images) |-> i],
                               !.pc = PickLoopPc(<<>>, images, n)]
          ELSE [IdleImg EXCEPT !.images = images, !.n = n, !.pc = "done",
                               !.picked = PadErrors(images, n)]
    /\ UNCHANGED <<mlim, fn, sse, api_keys, usage, now, call, tokens, req>>

\* One turn of the loop: splice a random entry out of pool and push it if
\* it is non-empty.
PickStep(idx) ==
    /\ img.pc = "loop"
    /\ idx \in PickIndices(img.pool)
    /\ LET item == img.pool[idx]
           pool == RemoveAt(img.pool, idx)
           picked == IF item # "" THEN Append(img.picked, item) ELSE img.picked
           pickedPos == IF item # "" THEN Append(img.pickedPos, img.poolPos[idx])
                        ELSE img.pickedPos
       IN  img' = [img EXCEPT !.pool = pool, !.poolPos = RemoveAt(img.poolPos, idx),
                              !.picked = picked, !.pickedPos = pickedPos,
                              !.pc = PickLoopPc(picked, pool, img.n)]
    /\ UNCHANGED <<mlim, fn, sse, api_keys, usage, now, call, tokens, req>>

\* The caller takes the result; the helper may be called again.
PickReturn ==
    /\ img.pc = "done"
    /\ img' = IdleImg
    /\ UNCHANGED <<mlim, fn, sse, api_keys, usage, now, call, tokens, req>>

(***************************************************************************)
(* The image event streams: createImageEventStream reads the upstream      *)
(* body line by line and forwards events; createSyntheticImageEventStream  *)
(* turns a list of results into events.                                    *)
(***************************************************************************)
MaxLines == 2

\* What one line of the upstream body can carry: an error message, or a
\* response with an optional progress report (imageIndex, -1 for none) and
\* a list of generated image URLs. A line with neither is skipped, as an
\* empty or unparsable one.
UpstreamLines ==
    {[err |-> TRUE, imageIndex |-> -1, urls |-> <<>>]} \cup
    [err : {FALSE}, imageIndex : {-1, 0, 1}, urls : {<<>>, <<"a">>, <<"a", "b">>}]

UpstreamBodies == SeqsUpTo(UpstreamLines, MaxLines)

\* What createSyntheticImageEventStream is given as selected.
SelectedValues == {"a", "", "error"}
SelectedLists == SeqsUpTo(SelectedValues, MaxResults)

\* const targetIndex = args.n === 1 ? Math.floor(Math.random() * 2) : null
TargetIndexes(n) == IF n = 1 THEN {0, 1} ELSE {-1}

\* No stream yet. events is what the controller has enqueued and the
\* consumer can read; state is the stream's (open, closed, errored, or
\* cancelled by the consumer); lock is the reader lock on the upstream
\* body; finishes lists the calls of onFinish, each with its status and
\* the state of the stream at the call; status is the last status given
\* (0 before). readsAfterCancel counts the lines read after the consumer
\* left, drained tells that the read loop then reached the upstream's end.
IdleStream ==
    [pc |-> "idle", kind |-> "", n |-> 0, targetIndex |-> -1, lines |-> <<>>,
     finalImages |-> <<>>, selected |-> <<>>, i |-> 0, emitted |-> FALSE,
     events |-> <<>>, status |-> 0, state |-> "open", lock |-> "none",
     finishes |-> <<>>, readsAfterCancel |-> 0, drained |-> FALSE]

PartialImage(index) ==
    [type |-> "image_generation.partial_image", value |-> "", index |-> index]

Completed(value, index) ==
    [type |-> "image_generation.completed", value |-> value, index |-> index]

\* await args.onFinish({ status, ... })
OnFinish(s, status) ==
    [s EXCEPT !.finishes = Append(@, [status |-> status, state |-> s.state]),
              !.status = status]

\* controller.close() and controller.error(e) act on a stream that is
\* still open; start() rejecting errors an open stream as well.
CloseStream(s) == [s EXCEPT !.state = IF @ = "open" THEN "closed" ELSE @]
ErrorStream(s) == [s EXCEPT !.state = IF @ = "open" THEN "errored" ELSE @]

ReleaseLock_Skip(s) == s

\* finally { try { reader.releaseLock() } catch { } ... }
ReleaseLock(s) == [s EXCEPT !.lock = IF @ = "held" THEN "released" ELSE @]

\* catch (e): failed = true, onFinish(500), controller.error(e); then the
\* finally block, which does not close. Should onFinish throw here, the
\* finally block runs all the same and start() rejects, which errors the
\* stream too.
CatchBlock(s) ==
    [ReleaseLock(ErrorStream(OnFinish(s, 500))) EXCEPT !.pc = "done"]

\* controller.enqueue(ev): on an open stream the event is queued; on a
\* stream the consumer cancelled it throws or is dropped.
Enqueue(s, ev) == IF s.state = "open" THEN [s EXCEPT !.events = Append(@, ev)] ELSE s

\* createImageEventStream up to the read loop: without an upstream body,
\* onFinish(500) and close (a throwing onFinish makes start() reject);
\* with one, body.getReader() locks it.
createImageEventStream(n, targetIndex, hasBody, lines, finishThrows) ==
    /\ sse.pc = "idle"
    /\ targetIndex \in TargetIndexes(n)
    /\ finishThrows => ~hasBody
    /\ LET s == [IdleStream EXCEPT !.kind = "legacy", !.n = n,
                                   !.targetIndex = targetIndex]
       IN  sse' =
             IF ~hasBody
             THEN [(IF finishThrows THEN ErrorStream(OnFinish(s, 500))
                    ELSE CloseStream(OnFinish(s, 500))) EXCEPT !.pc = "done"]
             ELSE [s EXCEPT !.lines = lines, !.lock = "held", !.pc = "read"]
    /\ UNCHANGED <<mlim, fn, img, api_keys, usage, now, call, tokens, req>>

\* The consumer cancels the stream while start() is still running: the
\* stream has no cancel callback, so nothing else happens.
CancelStream ==
    /\ sse.kind = "legacy" /\ sse.pc \in {"read", "emit"}
    /\ sse.state = "open"
    /\ sse' = [sse EXCEPT !.state = "cancelled"]
    /\ UNCHANGED <<mlim, fn, img, api_keys, usage, now, call, tokens, req>>

\* One line of the body: an error message throws; a progress report for
\* another image than the target of n = 1 skips the line; otherwise the
\* progress is enqueued and the line's URLs are converted and pushed to
\* finalImages. enqThrows: the enqueue on a cancelled stream throws;
\* convThrows: convertRawUrlByFormat throws.
ReadLine(enqThrows, convThrows) ==
    /\ sse.pc = "read" /\ sse.lines # <<>>
    /\ enqThrows => sse.state # "open"
    /\ LET line == Head(sse.lines)
           rest == [sse EXCEPT !.lines = Tail(@),
                     !.readsAfterCancel = IF sse.state = "cancelled" THEN @ + 1 ELSE @]
           reports == line.imageIndex >= 0
           outIndex == IF sse.n = 1 THEN 0 ELSE line.imageIndex
           sent == IF reports THEN Enqueue(rest, PartialImage(outIndex)) ELSE rest
       IN  sse' =
             IF line.err THEN CatchBlock(rest)
             ELSE IF reports /\ sse.n = 1 /\ line.imageIndex # sse.targetIndex
             THEN rest
             ELSE IF reports /\ enqThrows THEN CatchBlock(rest)
             ELSE IF line.urls # <<>> /\ convThrows THEN CatchBlock(sent)
             ELSE [sent EXCEPT !.finalImages = @ \o line.urls]
    /\ UNCHANGED <<mlim, fn, img, api_keys, usage, now, call, tokens, req>>

\* reader.read() reports done: go on to the loop over finalImages.
ReadDone ==
    /\ sse.pc = "read" /\ sse.lines = <<>>
    /\ sse' = [sse EXCEPT !.pc = "emit", !.i = 0,
                          !.drained = (sse.state = "cancelled")]
    /\ UNCHANGED <<mlim, fn, img, api_keys, usage, now, call, tokens, req>>

\* for (let i = 0; i < finalImages.length; i++): with n = 1 only the
\* image at targetIndex is sent, as index 0.
EmitCompleted(enqThrows) ==
    /\ sse.pc = "emit" /\ sse.i < Len(sse.finalImages)
    /\ enqThrows => sse.state # "open"
    /\ LET outIndex == IF sse.n = 1 THEN 0 ELSE sse.i
           next == [sse EXCEPT !.i = @ + 1]
       IN  sse' =
             IF sse.n = 1 /\ sse.i # sse.targetIndex THEN next
             ELSE IF enqThrows THEN CatchBlock(sse)
             ELSE Enqueue(next, Completed(sse.finalImages[sse.i + 1], outIndex))
    /\ UNCHANGED <<mlim, fn, img, api_keys, usage, now, call, tokens, req>>

\* After the loop: onFinish(200), which may throw into the catch block;
\* else the finally block releases the lock and closes.
LegacyStreamClose(finishThrows) ==
    /\ sse.pc = "emit" /\ sse.i = Len(sse.finalImages)
    /\ sse' =
          IF finishThrows THEN CatchBlock(OnFinish(sse, 200))
          ELSE [CloseStream(ReleaseLock(OnFinish(sse, 200))) EXCEPT !.pc = "done"]
    /\ UNCHANGED <<mlim, fn, img, api_keys, usage, now, call, tokens, req>>

createSyntheticImageEventStream(selected) ==
    /\ sse.pc = "idle"
    /\ sse' = [IdleStream EXCEPT !.kind = "synthetic", !.selected = selected,
                                 !.pc = "synth"]
    /\ UNCHANGED <<mlim, fn, img, api_keys, usage, now, call, tokens, req>>

\* One turn of the loop over selected: an empty or "error" value is
\* skipped, any other is sent as a partial and a completed event.
SyntheticStep ==
    /\ sse.pc = "synth" /\ sse.i < Len(sse.selected)
    /\ LET value == sse.selected[sse.i + 1]
       IN  sse' =
             IF value = "" \/ value = "error"
             THEN [sse EXCEPT !.i = @ + 1]
             ELSE [sse EXCEPT !.i = @ + 1, !.emitted = TRUE,
                     !.events = @ \o <<PartialImage(sse.i),
                                       Completed(value, sse.i)>>]
    /\ UNCHANGED <<mlim, fn, img, api_keys, usage, now, call, tokens, req>>

\* After the loop: if nothing was sent, one completed event carrying
\* "error"; then onFinish(200) and close, or, when onFinish throws, the
\* catch block: onFinish(500) and controller.error(e).
SyntheticClose(finishThrows) ==
    /\ sse.pc = "synth" /\ sse.i = Len(sse.selected)
    /\ LET s == OnFinish([sse EXCEPT !.events = IF sse.emitted THEN @
                                       ELSE Append(@, Completed("error", 0))], 200)
       IN  sse' =
             IF finishThrows
             THEN [ErrorStream(OnFinish(s, 500)) EXCEPT !.pc = "done"]
             ELSE [CloseStream(s) EXCEPT !.pc = "done"]
    /\ UNCHANGED <<mlim, fn, img, api_keys, usage, now, call, tokens, req>>

(***************************************************************************)
(* Pure helpers, called on every bounded argument.                         *)
(***************************************************************************)
MaxTokenLen == 7

\* No helper call in progress.
IdleFn == [pc |-> "idle", name |-> "", args |-> <<>>, result |-> <<>>]

Returned(name, args, result) ==
    [pc |-> "done", name |-> name, args |-> args, result |-> result]

\* The caller takes the result; another helper may be called.
FnReturn ==
    /\ fn.pc = "done"
    /\ fn' = IdleFn
    /\ UNCHANGED <<mlim, sse, img, api_keys, usage, now, call, tokens, req>>

\* A credential is a non-empty string, here a sequence of characters.
TokenChars == {"x", "y"}
NonEmptySeqsUpTo(S, k) == SeqsUpTo(S, k) \ {<<>>}
Credentials == NonEmptySeqsUpTo(TokenChars, MaxTokenLen)

SuffixLen == 6

\* String.prototype.slice(-k): the last k characters, the whole string
\* when it has no more than k.
SliceLast(str, k) ==
    IF Len(str) <= k THEN str ELSE SubSeq(str, Len(str) - k + 1, Len(str))

\* token.length >= 6 ? token.slice(-6) : token
getTokenSuffix(token) ==
    IF Len(token) >= SuffixLen THEN SliceLast(token, SuffixLen) ELSE token

\* token_suffix: getTokenSuffix(chosen.token) in the image logs
LogTokenSuffix(token) ==
    /\ fn.pc = "idle"
    /\ fn' = Returned("getTokenSuffix", <<token>>, getTokenSuffix(token))
    /\ UNCHANGED <<mlim, sse, img, api_keys, usage, now, call, tokens, req>>

\* token_suffix: jwt.slice(-6) in the chat logs
LogJwtSuffix(jwt) ==
    /\ fn.pc = "idle"
    /\ fn' = Returned("jwt.slice", <<jwt>>, SliceLast(jwt, SuffixLen))
    /\ UNCHANGED <<mlim, sse, img, api_keys, usage, now, call, tokens, req>>

\* localDayString on timestamps in milliseconds, as the code takes them.
MsPerMinute == 60 * 1000
MsPerDay == 24 * 60 * MsPerMinute

localDayStringMs_NoOffset(nowMs, tzOffsetMinutes) ==
    LET date == CivilFromDays(FloorDiv(nowMs, MsPerDay))
    IN  ToString(date.y) \o "-" \o pad2(date.m) \o "-" \o pad2(date.d)

\* const offsetMs = tzOffsetMinutes * 60 * 1000;
\* const local = new Date(now + offsetMs); then the UTC getters of local.
localDayStringMs(nowMs, tzOffsetMinutes) ==
    LET offsetMs == tzOffsetMinutes * MsPerMinute
        local == nowMs + offsetMs
        date == CivilFromDays(FloorDiv(local, MsPerDay))
    IN  ToString(date.y) \o "-" \o pad2(date.m) \o "-" \o pad2(date.d)

DayRange == 1

\* Instants at and one millisecond before the midnights of several zones,
\* on the days around the epoch.
Instants ==
    {k * MsPerDay + o * MsPerMinute + e :
        k \in (-DayRange)..DayRange, o \in {0, -480, 300, 720}, e \in {-1, 0}}

\* Distances between the two timestamps compared: none, a millisecond,
\* 23 hours, a day less a millisecond, a day.
Gaps == {0, 1, 23 * 60 * MsPerMinute, MsPerDay - 1, MsPerDay}

TzOffsets == {DefaultTzOffsetMinutes, 0, -300}

\* localDayString of two timestamps under one offset.
LocalDays(t1, t2, tzOffsetMinutes) ==
    /\ fn.pc = "idle"
    /\ fn' = Returned("localDayString", <<t1, t2, tzOffsetMinutes>>,
                      <<localDayStringMs(t1, tzOffsetMinutes),
                        localDayStringMs(t2, tzOffsetMinutes)>>)
    /\ UNCHANGED <<mlim, sse, img, api_keys, usage, now, call, tokens, req>>

(***************************************************************************)
(* The credential pool on its own: selection, failure recording, cooldown  *)
(* and the clock.                                                          *)
(***************************************************************************)
MaxPoolTicks == 4
MaxPoolFailures == 2

\* The classes of failure with a long and with a short cooldown.
PoolStatuses == {401, 429}

\* selectBestToken: one credential that is not in cooldown, or none.
PoolSelect ==
    /\ fn.pc = "idle"
    /\ \/ /\ Selectable(tokens, now) = {}
          /\ fn' = Returned("selectBestToken", <<>>, <<>>)
       \/ \E t \in Selectable(tokens, now) :
             fn' = Returned("selectBestToken", <<>>, <<t>>)
    /\ UNCHANGED <<mlim, sse, img, api_keys, usage, now, call, tokens, req>>

PoolRecordFailure(t, status) ==
    /\ tokens[t].failed_count < MaxPoolFailures
    /\ tokens' = recordTokenFailure(tokens, t, status)
    /\ UNCHANGED <<mlim, fn, sse, img, api_keys, usage, now, call, req>>

PoolApplyCooldown(t, status) ==
    /\ tokens' = applyCooldown(tokens, t, status, now)
    /\ UNCHANGED <<mlim, fn, sse, img, api_keys, usage, now, call, req>>

PoolTick ==
    /\ now < StartMinute + MaxPoolTicks
    /\ now' = now + 1
    /\ UNCHANGED <<mlim, fn, sse, img, api_keys, usage, call, tokens, req>>

NoToken == [failed_count |-> 0, cooldown_until |-> 0]

LedgerInit ==
    /\ api_keys = [k \in Keys |-> NoKey]
    /\ usage = [kd \in Keys \X Days |-> NoRow]
    /\ now = StartMinute
    /\ call = [c \in Callers |-> IdleCall]
    /\ tokens = [t \in Tokens |-> NoToken]
    /\ req = [r \in Reqs |-> IdleReq]
    /\ img = IdleImg
    /\ sse = IdleStream
    /\ fn = IdleFn
    /\ mlim = IdleMapLimit

LedgerNext ==
    \/ \E c \in Callers, f \in LedgerFields,
          inc \in IncChoices, limit \in LimitChoices :
          tryConsumeDailyUsage(c, "k1", f, inc, limit)
    \/ \E c \in Callers, lh \in LimitChoices, lc \in LimitChoices :
          tryConsumeDailyUsageMulti(c, "k1",
              <<[field |-> "heavy_used", inc |-> 1, limit |-> lh],
                [field |-> "chat_used", inc |-> 1, limit |-> lc]>>)
    \/ \E c \in Callers, f \in LedgerFields, raw \in RawZeroIncs :
          tryConsumeDailyUsage(c, "k1", f, NumberOrZero(raw), 1)
    \/ \E c \in Callers, rh \in RawZeroIncs, rc \in RawZeroIncs :
          tryConsumeDailyUsageMulti(c, "k1",
              <<[field |-> "heavy_used", inc |-> NumberOrZero(rh), limit |-> 1],
                [field |-> "chat_used", inc |-> NumberOrZero(rc), limit |-> 1]>>)
    \/ \E c \in Callers : tryConsumeDailyUsageMulti(c, "k1", <<>>)
    \/ \E c \in Callers : CallEnsure(c)
    \/ \E c \in Callers : CallUpdate(c)

\* The quota ledger under direct concurrent calls.
LedgerSpec == LedgerInit /\ [][LedgerNext]_vars

OrchestratorProfiles == {KeyRow(1, 1, 2, 1), KeyRow(5, 0, 1, 0)}
OrchestratorAuths == {a \in Auths : a.key # "k2"}

\* Key k1 is an active key with one of the limit profiles; k2 has no row.
QuotaInit ==
    /\ \E p \in KeyProfiles : api_keys = [k \in Keys |-> IF k = "k1" THEN p ELSE NoKey]
    /\ usage = [kd \in Keys \X Days |-> NoRow]
    /\ now = StartMinute
    /\ call = [c \in Callers |-> IdleCall]
    /\ tokens = [t \in Tokens |-> NoToken]
    /\ req = [r \in Reqs |-> IdleReq]
    /\ img = IdleImg
    /\ sse = IdleStream
    /\ fn = IdleFn
    /\ mlim = IdleMapLimit

\* The handlers of concurrent requests up to the decision of enforceQuota.
QuotaNext ==
    \/ \E r \in Reqs, auth \in Auths, model \in DOMAIN MODEL_CONFIG :
          StartChat(r, auth, model, TRUE, FALSE, 0, DefaultRetryCodes)
    \/ \E r \in Reqs : QuotaLimits(r)
    \/ \E r \in Reqs : QuotaEnsure(r)
    \/ \E r \in Reqs : QuotaUpdate(r)
    \/ Tick

QuotaSpec == QuotaInit /\ [][QuotaNext]_vars

\* Direct calls of the ledger for either key while the clock passes a local
\* midnight.
DayNext ==
    \/ \E c \in Callers, key \in Keys, f \in LedgerFields :
          tryConsumeDailyUsage(c, key, f, 1, 1)
    \/ \E c \in Callers :
          tryConsumeDailyUsageMulti(c, "k1",
              <<[field |-> "heavy_used", inc |-> 1, limit |-> -1],
                [field |-> "chat_used", inc |-> 1, limit |-> 1]>>)
    \/ \E c \in Callers : CallEnsure(c)
    \/ \E c \in Callers : CallUpdate(c)
    \/ Tick

DaySpec == LedgerInit /\ [][DayNext]_vars

\* The non-admin caller holding key k1.
KeyHolder == [key |-> "k1", is_admin |-> FALSE]

\* Concurrent chat and image requests of one key up to the decision of
\* enforceQuota, within one day.
CountersNext ==
    \/ \E r \in Reqs, model \in DOMAIN MODEL_CONFIG :
          StartChat(r, KeyHolder, model, TRUE, FALSE, 0, DefaultRetryCodes)
    \/ \E r \in Reqs, endpoint \in {"generations", "edits"}, rawN \in ImageCountInputs :
          StartImage(r, endpoint, KeyHolder, TRUE, "grok-imagine-1.0", rawN, FALSE,
                     <<"ok">>, TRUE, IMAGE_METHOD_LEGACY)
    \/ \E r \in Reqs : QuotaLimits(r)
    \/ \E r \in Reqs : QuotaEnsure(r)
    \/ \E r \in Reqs : QuotaUpdate(r)

CountersSpec == QuotaInit /\ [][CountersNext]_vars

\* The pool as earlier requests may have left it: every credential fresh, or
\* every credential in a cooldown after an authentication failure.
InitialPools ==
    { [t \in Tokens |-> NoToken],
      [t \in Tokens |-> [failed_count |-> 1,
                         cooldown_until |-> StartMinute + CooldownAuth]] }

Init ==
    /\ \E p \in OrchestratorProfiles :
          api_keys = [k \in Keys |-> IF k = "k1" THEN p ELSE NoKey]
    /\ usage = [kd \in Keys \X Days |-> NoRow]
    /\ now = StartMinute
    /\ call = [c \in Callers |-> IdleCall]
    /\ tokens \in InitialPools
    /\ req = [r \in Reqs |-> IdleReq]
    /\ img = IdleImg
    /\ sse = IdleStream
    /\ fn = IdleFn
    /\ mlim = IdleMapLimit

\* The orchestrator: one inbound request from arrival to its response.
Next ==
    \/ \E auth \in OrchestratorAuths, model \in ChatModelInputs,
          messagesOk \in BOOLEAN, stream \in BOOLEAN, images \in 0..MaxImages,
          retryCodes \in RetryCodeChoices :
          StartChat(1, auth, model, messagesOk, stream, images, retryCodes)
    \/ QuotaLimits(1)
    \/ QuotaEnsure(1)
    \/ QuotaUpdate(1)
    \/ ChatSelect(1)
    \/ \E ok \in BOOLEAN : ChatUpload(1, ok)
    \/ \E ok \in BOOLEAN : ChatCreatePost(1, ok)
    \/ ChatSend(1)
    \/ \E outcome \in {0, 200} \cup FailStatuses : ChatReceive(1, outcome)
    \/ ChatRecordFailure(1)
    \/ ChatApplyCooldown(1)
    \/ \E ok \in BOOLEAN : ChatParse(1, ok)
    \/ LogOk(1)
    \/ \E status \in {200, 500} : StreamFinish(1, status)
    \/ ChatExhausted(1)
    \/ \E endpoint \in {"generations", "edits"}, auth \in OrchestratorAuths,
          promptOk \in BOOLEAN, model \in ImageModelInputs,
          rawN \in ImageCountInputs, stream \in BOOLEAN, files \in FileInputs,
          formatOk \in BOOLEAN, method \in ImageMethods :
          StartImage(1, endpoint, auth, promptOk, model, rawN, stream,
                     IF endpoint = "edits" THEN files ELSE <<>>, formatOk, method)
    \/ GenExpSelect(1)
    \/ \E outcome \in ExpOutcomes, mod \in BOOLEAN : ExpCall(1, outcome, mod)
    \/ ImageSelect(1)
    \/ \E ok \in BOOLEAN, mod \in BOOLEAN : EditFile(1, ok, mod)
    \/ \E outcome \in {0, 200} \cup FailStatuses, mod \in BOOLEAN :
          LegacyStreamCall(1, outcome, mod)
    \/ \E nonEmpty \in BOOLEAN : ExpEditCheck(1, nonEmpty)
    \/ ImageRecordFailure(1)
    \/ ImageApplyCooldown(1)
    \/ LegacyFailLog(1)
    \/ \E i \in 1..(2 * MapLimitImages) : WorkerSelect(1, i)
    \/ \E i \in 1..(2 * MapLimitImages), ok \in BOOLEAN, mod \in BOOLEAN :
          WorkerCall(1, i, ok, mod)
    \/ \E i \in 1..(2 * MapLimitImages) : WorkerRecordFailure(1, i)
    \/ \E i \in 1..(2 * MapLimitImages) : WorkerApplyCooldown(1, i)
    \/ Tick

Spec == Init /\ [][Next]_vars


\* The orchestrator serving the holder of key k1 while an administrator may
\* delete that key.
CoreNext ==
    \/ \E model \in ChatModelInputs, stream \in BOOLEAN, images \in {0, 1},
          retryCodes \in RetryCodeChoices :
          StartChat(1, KeyHolder, model, TRUE, stream, images, retryCodes)
    \/ QuotaLimits(1)
    \/ QuotaEnsure(1)
    \/ QuotaUpdate(1)
    \/ ChatSelect(1)
    \/ \E ok \in BOOLEAN : ChatUpload(1, ok)
    \/ \E ok \in BOOLEAN : ChatCreatePost(1, ok)
    \/ ChatSend(1)
    \/ \E outcome \in {0, 200} \cup FailStatuses : ChatReceive(1, outcome)
    \/ ChatRecordFailure(1)
    \/ ChatApplyCooldown(1)
    \/ \E ok \in BOOLEAN : ChatParse(1, ok)
    \/ LogOk(1)
    \/ \E status \in {200, 500} : StreamFinish(1, status)
    \/ ChatExhausted(1)
    \/ \E endpoint \in {"generations", "edits"}, model \in ImageModelInputs,
          rawN \in ImageCountInputs, stream \in BOOLEAN, files \in FileInputs,
          method \in ImageMethods :
          StartImage(1, endpoint, KeyHolder, TRUE, model, rawN, stream,
                     IF endpoint = "edits" THEN files ELSE <<>>, TRUE, method)
    \/ GenExpSelect(1)
    \/ \E outcome \in ExpOutcomes, mod \in BOOLEAN : ExpCall(1, outcome, mod)
    \/ ImageSelect(1)
    \/ \E ok \in BOOLEAN, mod \in BOOLEAN : EditFile(1, ok, mod)
    \/ \E outcome \in {0, 200} \cup FailStatuses, mod \in BOOLEAN :
          LegacyStreamCall(1, outcome, mod)
    \/ \E nonEmpty \in BOOLEAN : ExpEditCheck(1, nonEmpty)
    \/ ImageRecordFailure(1)
    \/ ImageApplyCooldown(1)
    \/ LegacyFailLog(1)
    \/ \E i \in 1..(2 * MapLimitImages) : WorkerSelect(1, i)
    \/ \E i \in 1..(2 * MapLimitImages), ok \in BOOLEAN, mod \in BOOLEAN :
          WorkerCall(1, i, ok, mod)
    \/ \E i \in 1..(2 * MapLimitImages) : WorkerRecordFailure(1, i)
    \/ \E i \in 1..(2 * MapLimitImages) : WorkerApplyCooldown(1, i)
    \/ deleteApiKey("k1")

\* Key k1 with one limit on every bucket, the pool fresh or cooling down.
CoreInit ==
    /\ api_keys = [k \in Keys |-> IF k = "k1" THEN KeyRow(1, 1, 2, 1) ELSE NoKey]
    /\ usage = [kd \in Keys \X Days |-> NoRow]
    /\ now = StartMinute
    /\ call = [c \in Callers |-> IdleCall]
    /\ tokens \in InitialPools
    /\ req = [r \in Reqs |-> IdleReq]
    /\ img = IdleImg
    /\ sse = IdleStream
    /\ fn = IdleFn
    /\ mlim = IdleMapLimit

CoreSpec == CoreInit /\ [][CoreNext]_vars

MapInit ==
    /\ api_keys = [k \in Keys |-> NoKey]
    /\ usage = [kd \in Keys \X Days |-> NoRow]
    /\ now = StartMinute
    /\ call = [c \in Callers |-> IdleCall]
    /\ tokens = [t \in Tokens |-> NoToken]
    /\ req = [r \in Reqs |-> IdleReq]
    /\ img = IdleImg
    /\ sse = IdleStream
    /\ fn = IdleFn
    /\ mlim = IdleMapLimit

MapNext ==
    \/ \E items \in 0..MaxItems, limit \in MapLimits : mapLimit(items, limit)
    \/ \E w \in 1..Max(1, ChatUploadLimit) : FnResolve(w)
    \/ \E w \in 1..Max(1, ChatUploadLimit) : FnReject(w)
    \/ MapReturn

\* mapLimit on every bounded input and under every order of completions.
MapSpec == MapInit /\ [][MapNext]_vars

\* The largest counter a row starts with when the two functions are compared.
MaxStart == 2

\* A row in which every counter has reached start.
UsedRow(start, atMs) ==
    [exists |-> TRUE, chat_used |-> start, heavy_used |-> start,
     image_used |-> start, video_used |-> start, updated_at |-> atMs]

\* Both keys have consumed the same so far today, or nothing yet.
EquivInit ==
    /\ api_keys = [k \in Keys |-> NoKey]
    /\ \E start \in 0..MaxStart, present \in BOOLEAN :
          /\ start > 0 => present
          /\ usage = [kd \in Keys \X Days |->
                        IF present /\ kd[2] = localDayString(StartMinute, DefaultTzOffsetMinutes)
                        THEN UsedRow(start, StartMinute) ELSE NoRow]
    /\ now = StartMinute
    /\ call = [c \in Callers |-> IdleCall]
    /\ tokens = [t \in Tokens |-> NoToken]
    /\ req = [r \in Reqs |-> IdleReq]
    /\ img = IdleImg
    /\ sse = IdleStream
    /\ fn = IdleFn
    /\ mlim = IdleMapLimit

\* The same update given to tryConsumeDailyUsage for key k1 and, as a list
\* of one, to tryConsumeDailyUsageMulti for key k2.
ConsumeBoth(field, inc, limit) ==
    /\ call[1].pc = "idle" /\ call[2].pc = "idle"
    /\ LET day == localDayString(now, DefaultTzOffsetMinutes)
           u == <<[field |-> field, inc |-> inc, limit |-> limit]>>
       IN  call' = [call EXCEPT ![1] = Enter(FALSE, "k1", day, u, now),
                                ![2] = Enter(TRUE, "k2", day, u, now)]
    /\ UNCHANGED <<mlim, fn, sse, img, api_keys, usage, now, tokens, req>>

EquivNext ==
    \/ \E field \in UsageFields, inc \in 1..2, limit \in -1..(MaxStart + 1) :
          ConsumeBoth(field, inc, limit)
    \/ \E c \in Callers : CallEnsure(c)
    \/ \E c \in Callers : CallUpdate(c)

EquivSpec == EquivInit /\ [][EquivNext]_vars

\* The limits an administrator sets while requests of the key are served.
LimitEdits ==
    { [chat_limit |-> 0], [chat_limit |-> 1], [chat_limit |-> -2],
      [image_limit |-> 0, video_limit |-> 0] }

\* Key k1 allows one request per bucket and day.
LimitsInit ==
    /\ api_keys = [k \in Keys |-> IF k = "k1" THEN KeyRow(1, 1, 1, 1) ELSE NoKey]
    /\ usage = [kd \in Keys \X Days |-> NoRow]
    /\ now = StartMinute
    /\ call = [c \in Callers |-> IdleCall]
    /\ tokens = [t \in Tokens |-> NoToken]
    /\ req = [r \in Reqs |-> IdleReq]
    /\ img = IdleImg
    /\ sse = IdleStream
    /\ fn = IdleFn
    /\ mlim = IdleMapLimit

\* Requests of key k1 up to the decision of enforceQuota while an
\* administrator edits the limits of the key.
LimitsNext ==
    \/ \E r \in Reqs, model \in DOMAIN MODEL_CONFIG \ {"grok-4-heavy"} :
          StartChat(r, KeyHolder, model, TRUE, FALSE, 0, DefaultRetryCodes)
    \/ \E r \in Reqs : QuotaLimits(r)
    \/ \E r \in Reqs : QuotaEnsure(r)
    \/ \E r \in Reqs : QuotaUpdate(r)
    \/ \E limits \in LimitEdits : updateApiKeyLimits("k1", limits)

LimitsSpec == LimitsInit /\ [][LimitsNext]_vars

\* apiAuth as enforceQuota may receive it: any key, empty or not, with or
\* without the administrator flag.
AnyAuths == [key : Keys \cup {""}, is_admin : BOOLEAN]

\* Key k1 is active with one request per bucket; key k2 has no row or a row
\* that was deactivated.
ExemptInit ==
    /\ \E k2 \in {NoKey, [KeyRow(1, 1, 1, 1) EXCEPT !.is_active = 0]} :
          api_keys = [k \in Keys |-> IF k = "k1" THEN KeyRow(1, 1, 1, 1) ELSE k2]
    /\ usage = [kd \in Keys \X Days |-> NoRow]
    /\ now = StartMinute
    /\ call = [c \in Callers |-> IdleCall]
    /\ tokens = [t \in Tokens |-> NoToken]
    /\ req = [r \in Reqs |-> IdleReq]
    /\ img = IdleImg
    /\ sse = IdleStream
    /\ fn = IdleFn
    /\ mlim = IdleMapLimit

\* enforceQuota for every kind of caller.
ExemptNext ==
    \/ \E r \in Reqs, auth \in AnyAuths, model \in DOMAIN MODEL_CONFIG :
          StartChat(r, auth, model, TRUE, FALSE, 0, DefaultRetryCodes)
    \/ \E r \in Reqs : QuotaLimits(r)
    \/ \E r \in Reqs : QuotaEnsure(r)
    \/ \E r \in Reqs : QuotaUpdate(r)

ExemptSpec == ExemptInit /\ [][ExemptNext]_vars

PickInit ==
    /\ api_keys = [k \in Keys |-> NoKey]
    /\ usage = [kd \in Keys \X Days |-> NoRow]
    /\ now = StartMinute
    /\ call = [c \in Callers |-> IdleCall]
    /\ tokens = [t \in Tokens |-> NoToken]
    /\ req = [r \in Reqs |-> IdleReq]
    /\ img = IdleImg
    /\ sse = IdleStream
    /\ fn = IdleFn
    /\ mlim = IdleMapLimit

PickNext ==
    \/ \E images \in ResultLists, n \in 1..MaxPick : PickStart(images, n)
    \/ \E idx \in 1..MaxResults : PickStep(idx)
    \/ PickReturn

\* pickImageResults on every bounded input.
PickSpec == PickInit /\ [][PickNext]_vars

StreamInit ==
    /\ api_keys = [k \in Keys |-> NoKey]
    /\ usage = [kd \in Keys \X Days |-> NoRow]
    /\ now = StartMinute
    /\ call = [c \in Callers |-> IdleCall]
    /\ tokens = [t \in Tokens |-> NoToken]
    /\ req = [r \in Reqs |-> IdleReq]
    /\ img = IdleImg
    /\ sse = IdleStream
    /\ fn = IdleFn
    /\ mlim = IdleMapLimit

StreamNext ==
    \/ \E n \in {1, 2}, targetIndex \in {-1, 0, 1}, hasBody \in BOOLEAN,
          lines \in UpstreamBodies, finishThrows \in BOOLEAN :
            createImageEventStream(n, targetIndex, hasBody, lines, finishThrows)
    \/ CancelStream
    \/ \E enqThrows \in BOOLEAN, convThrows \in BOOLEAN : ReadLine(enqThrows, convThrows)
    \/ ReadDone
    \/ \E enqThrows \in BOOLEAN : EmitCompleted(enqThrows)
    \/ \E finishThrows \in BOOLEAN : LegacyStreamClose(finishThrows)
    \/ \E selected \in SelectedLists : createSyntheticImageEventStream(selected)
    \/ SyntheticStep
    \/ \E finishThrows \in BOOLEAN : SyntheticClose(finishThrows)

\* Both event streams on every bounded upstream body and result list.
StreamSpec == StreamInit /\ [][StreamNext]_vars

HelperInit ==
    /\ api_keys = [k \in Keys |-> NoKey]
    /\ usage = [kd \in Keys \X Days |-> NoRow]
    /\ now = StartMinute
    /\ call = [c \in Callers |-> IdleCall]
    /\ tokens = [t \in Tokens |-> NoToken]
    /\ req = [r \in Reqs |-> IdleReq]
    /\ img = IdleImg
    /\ sse = IdleStream
    /\ fn = IdleFn
    /\ mlim = IdleMapLimit

HelperNext ==
    \/ \E token \in Credentials : LogTokenSuffix(token)
    \/ \E jwt \in Credentials : LogJwtSuffix(jwt)
    \/ \E t1 \in Instants, gap \in Gaps, tz \in TzOffsets : LocalDays(t1, t1 + gap, tz)
    \/ FnReturn

\* The pure helpers on every bounded argument.
HelperSpec == HelperInit /\ [][HelperNext]_vars

PoolInit ==
    /\ api_keys = [k \in Keys |-> NoKey]
    /\ usage = [kd \in Keys \X Days |-> NoRow]
    /\ now = StartMinute
    /\ call = [c \in Callers |-> IdleCall]
    /\ tokens = [t \in Tokens |-> NoToken]
    /\ req = [r \in Reqs |-> IdleReq]
    /\ img = IdleImg
    /\ sse = IdleStream
    /\ fn = IdleFn
    /\ mlim = IdleMapLimit

PoolNext ==
    \/ PoolSelect
    \/ FnReturn
    \/ \E t \in Tokens, status \in PoolStatuses : PoolRecordFailure(t, status)
    \/ \E t \in Tokens, status \in PoolStatuses : PoolApplyCooldown(t, status)
    \/ PoolTick

\* The credential pool under any order of its operations and of the clock.
PoolSpec == PoolInit /\ [][PoolNext]_vars

(***************************************************************************)
(* Properties of the quota ledger.                                         *)
(***************************************************************************)
Min(a, b) == IF a <= b THEN a ELSE b

\* A step in which caller c's conditional UPDATE executes and the call returns.
Returns(c) == call[c].pc = "update" /\ call'[c].pc = "done"

\* A step in which caller c's call returns from its synchronous prefix.
ReturnsEarly(c) == call[c].pc = "idle" /\ call'[c].pc = "done"

RowOf(c) == usage[<<call[c].key, call[c].day>>]
RowOfNext(c) == usage'[<<call[c].key, call[c].day>>]

\* C1: for a limit >= 0, a tryConsumeDailyUsage call whose UPDATE runs is
\* admitted (returns true, counter + inc) exactly when counter + inc <= limit
\* at that moment; a rejected call returns false and leaves the counter as it
\* was; a call adding nothing is admitted whenever the counter is within the
\* limit and changes nothing.
C1_AdmitsExactlyWithinLimit ==
    [][\A c \in Callers :
        /\ (Returns(c) /\ ~call[c].multi /\ call[c].args[1].limit >= 0) =>
              LET a == call[c].args[1]
                  cur == RowOf(c)[a.field]
                  fits == cur + NormalizeInc(a.inc) <= a.limit
              IN  /\ call'[c].result = fits
                  /\ RowOfNext(c)[a.field] =
                        IF fits THEN cur + NormalizeInc(a.inc) ELSE cur
                  /\ ~fits => usage' = usage
        /\ (call[c].pc = "idle" /\ call'[c].pc = "done" /\ ~call'[c].multi
               /\ call'[c].args[1].limit >= 0) =>
              LET a == call'[c].args[1]
                  cur == usage[<<call'[c].key, call'[c].day>>][a.field]
              IN  /\ cur <= a.limit =>
                        call'[c].result = (cur + NormalizeInc(a.inc) <= a.limit)
                  /\ usage' = usage
      ]_vars

\* C1 witness: on one bucket a call was admitted and a later call with a
\* limit >= 0 was rejected, the counter standing at what was admitted.
C1_Witness ==
    \E c, d \in Callers :
        /\ c # d
        /\ call[c].pc = "done" /\ call[d].pc = "done"
        /\ ~call[c].multi /\ ~call[d].multi
        /\ call[c].args[1].field = call[d].args[1].field
        /\ call[c].day = call[d].day
        /\ call[c].args[1].limit = 2 /\ call[d].args[1].limit = 2
        /\ call[c].args[1].inc = 2 /\ call[d].args[1].inc = 1
        /\ call[c].result /\ ~call[d].result
        /\ RowOf(c)[call[c].args[1].field] = 2

\* All callers ran tryConsumeDailyUsage with inc = 1 and limit L on one
\* (key, day, bucket), and all have returned.
RaceDone(field, day, L) ==
    \A c \in Callers :
        /\ call[c].pc = "done"
        /\ ~call[c].multi
        /\ call[c].day = day
        /\ call[c].args = <<[field |-> field, inc |-> 1, limit |-> L]>>

Admitted == {c \in Callers : call[c].pc = "done" /\ call[c].result}

\* C2: N concurrent tryConsumeDailyUsage calls with inc = 1 on one bucket
\* that starts at 0, limit L >= 0: under every interleaving exactly
\* min(N, L) calls return true and the counter ends at min(N, L).
C2_RaceAdmitsMinNL ==
    \A field \in LedgerFields, day \in Days, L \in LimitChoices :
        (L >= 0 /\ RaceDone(field, day, L)) =>
            /\ Cardinality(Admitted) = Min(NumCallers, L)
            /\ usage[<<"k1", day>>][field] = Min(NumCallers, L)

\* C2 witness: a finished race in which the limit is below the number of
\* callers, so that some call was rejected.
C2_Witness ==
    \E field \in LedgerFields, day \in Days :
        /\ RaceDone(field, day, 1)
        /\ Cardinality(Admitted) = 1
        /\ usage[<<"k1", day>>][field] = 1

\* A bucket of a multi call is at its limit: limit >= 0 and counter + 1 > limit.
AtLimit(row, u) == u.limit >= 0 /\ row[u.field] + 1 > u.limit

\* C3: tryConsumeDailyUsageMulti with [(heavy_used, 1, limit_h),
\* (chat_used, 1, limit_c)] is all-or-nothing for every pair of limits,
\* 0 included: a bucket at its limit makes the call return false with both
\* counters unchanged, otherwise it returns true and both grow by 1.
C3_MultiAllOrNothing ==
    [][\A c \in Callers :
        (Returns(c) /\ call[c].multi) =>
            LET h == call[c].args[1]
                k == call[c].args[2]
                row == RowOf(c)
                rejected == AtLimit(row, h) \/ AtLimit(row, k)
            IN  /\ call'[c].result = ~rejected
                /\ RowOfNext(c).heavy_used = row.heavy_used + (IF rejected THEN 0 ELSE 1)
                /\ RowOfNext(c).chat_used = row.chat_used + (IF rejected THEN 0 ELSE 1)
      ]_vars

\* C5: a bucket whose limit is -1 never rejects. tryConsumeDailyUsage with
\* limit -1 returns true and adds the increment whatever the counter; a
\* tryConsumeDailyUsageMulti call whose limits are all -1 returns true and
\* adds every increment; and a multi call is rejected only by a bucket whose
\* limit is >= 0.
C5_UnlimitedAlwaysAdmits ==
    [][\A c \in Callers :
        /\ (Returns(c) /\ ~call[c].multi /\ call[c].args[1].limit = -1) =>
              /\ call'[c].result
              /\ RowOfNext(c)[call[c].args[1].field] =
                    RowOf(c)[call[c].args[1].field] + NormalizeInc(call[c].args[1].inc)
        /\ (Returns(c) /\ call[c].multi
               /\ \A i \in 1..Len(call[c].args) : call[c].args[i].limit = -1) =>
              /\ call'[c].result
              /\ \A i \in 1..Len(call[c].args) :
                    RowOfNext(c)[call[c].args[i].field] =
                       RowOf(c)[call[c].args[i].field] + NormalizeInc(call[c].args[i].inc)
        /\ (Returns(c) /\ call[c].multi /\ ~call'[c].result) =>
              \E i \in 1..Len(call[c].args) :
                 /\ call[c].args[i].limit >= 0
                 /\ RowOf(c)[call[c].args[i].field] + NormalizeInc(call[c].args[i].inc)
                       > call[c].args[i].limit
        /\ (ReturnsEarly(c) /\ \A i \in 1..Len(call'[c].args) : call'[c].args[i].limit = -1) =>
              call'[c].result
      ]_vars

\* C5 witness: every caller consumed from unlimited buckets, single and
\* multi, and the chat counter stands above every finite limit offered.
C5_Witness ==
    /\ \A c \in Callers :
          /\ call[c].pc = "done" /\ call[c].result
          /\ \A i \in 1..Len(call[c].args) :
                call[c].args[i].limit = -1 /\ call[c].args[i].inc > 0
    /\ \E c \in Callers : call[c].multi
    /\ \E c \in Callers : ~call[c].multi /\ call[c].args[1].inc = 2
    /\ \E day \in Days : usage[<<"k1", day>>].chat_used >= 3

(***************************************************************************)
(* Properties of enforceQuota under concurrent requests.                   *)
(***************************************************************************)
\* A step in which request r's conditional UPDATE runs and enforceQuota
\* decides.
QuotaDecides(r) == req[r].pc = "quota_update" /\ req'[r].pc # "quota_update"

UsageOf(r) == usage[<<req[r].q.key, req[r].q.day>>]
UsageOfNext(r) == usage'[<<req[r].q.key, req[r].q.day>>]

\* C4: a chat-completions request for grok-4-heavy from a non-admin key with
\* chat_limit = 5 and heavy_limit = 0 is rejected with 429 for bucket
\* "heavy/chat", chat_used and heavy_used of the day unchanged.
C4_HeavyZeroRejected ==
    [][\A r \in Reqs :
        (/\ QuotaDecides(r)
         /\ req[r].endpoint = "chat" /\ req[r].model = "grok-4-heavy"
         /\ req[r].auth = [key |-> "k1", is_admin |-> FALSE]
         /\ api_keys["k1"].chat_limit = 5 /\ api_keys["k1"].heavy_limit = 0) =>
            /\ req'[r].response = [status |-> 429, code |-> "daily_quota_exceeded"]
            /\ req'[r].bucket = "heavy/chat"
            /\ UsageOfNext(r).chat_used = UsageOf(r).chat_used
            /\ UsageOfNext(r).heavy_used = UsageOf(r).heavy_used
      ]_vars

\* C6: in every reachable state, for every usage row and each of the four
\* buckets whose key limit is >= 0, the counter is at most the key's limit.
C6_CounterWithinLimit ==
    \A k \in Keys, d \in Days, field \in UsageFields :
        (api_keys[k].exists /\ usage[<<k, d>>].exists
            /\ api_keys[k][LimitField(field)] >= 0) =>
            usage[<<k, d>>][field] <= api_keys[k][LimitField(field)]

(***************************************************************************)
(* Properties of the request orchestrator.                                 *)
(***************************************************************************)
\* Request r has touched the upstream side: a token selection, a media
\* upload or an upstream call.
Upstream(f) == f.selected \/ f.uploaded \/ f.sent

\* C7: a chat-completions, image-generation or image-edit request consumes
\* quota at most once, and before its first token selection: no step adds to
\* its consumption after a consumption, a selection, an upload or an
\* upstream call, whatever the number of attempts or fallbacks.
C7_QuotaConsumedOnceBeforeSelection ==
    [][\A r \in Reqs :
        /\ req'[r].consumed <= 1
        /\ req'[r].consumed > req[r].consumed =>
              (req[r].consumed = 0 /\ ~Upstream(req[r]))
        /\ (Upstream(req'[r]) /\ ~Upstream(req[r])) =>
              req'[r].consumed = req[r].consumed
      ]_vars

\* C7 witness: a chat request answered after three attempts on selected
\* tokens, with one quota consumption.
C7_Witness ==
    \E r \in Reqs :
        /\ req[r].endpoint = "chat" /\ req[r].pc = "done"
        /\ req[r].attempt = 2 /\ req[r].failures = 3
        /\ req[r].consumed = 1

\* C8: a request rejected by enforceQuota selects no token, uploads no media
\* and sends nothing upstream; and every selection, upload and upstream call
\* of a request happens after enforceQuota has returned ok.
C8_NoUpstreamWithoutQuota ==
    \A r \in Reqs :
        /\ req[r].quota = "rejected" =>
              (~Upstream(req[r]) /\ req[r].response.status = 429)
        /\ Upstream(req[r]) => req[r].quota = "ok"

\* C8 witness: an image edit answered 429 by enforceQuota, with files to
\* upload and nothing selected, uploaded or sent.
C8_Witness ==
    \E r \in Reqs :
        /\ req[r].endpoint = "edits" /\ req[r].files # <<>>
        /\ req[r].quota = "rejected" /\ req[r].pc = "done"
        /\ req[r].response.code = "daily_quota_exceeded"
        /\ ~Upstream(req[r])

\* A step in which the chat loop decides, after the cooldown of a failed
\* attempt, whether to go round again.
LoopDecides(r) ==
    req[r].endpoint = "chat" /\ req[r].pc = "fail_cooldown" /\ req'[r].pc # "fail_cooldown"

\* Request r goes on to another attempt.
AnotherAttempt(r) == req'[r].pc = "select" /\ req'[r].attempt = req[r].attempt + 1

\* A chat request has received its response after at least one failed
\* attempt and without a successful one.
AllAttemptsFailed(f) ==
    f.endpoint = "chat" /\ f.pc = "done" /\ f.failures >= 1 /\ f.response.status # 200

\* C9 as stated: a failed attempt is followed by another only if its failure
\* status is in the retryable set and fewer than 3 attempts have been made;
\* any other failure stops the loop; a request whose attempts all fail ends
\* with 500 upstream_error.
C9_RetryOnlyRetryableStatus ==
    [][\A r \in Reqs :
        /\ LoopDecides(r) =>
              /\ AnotherAttempt(r) <=>
                    (req[r].lastFail.status \in req[r].retryCodes /\ req[r].attempt + 1 < 3)
              /\ ~AnotherAttempt(r) => req'[r].pc = "exhausted"
        /\ AllAttemptsFailed(req'[r]) =>
              req'[r].response = [status |-> 500, code |-> "upstream_error"]
      ]_vars

\* C9 amended: a non-success upstream response is followed by another
\* attempt exactly when its status is in the retryable set and fewer than 3
\* attempts have been made; a thrown error exactly when fewer than 3
\* attempts have been made, whatever the set; any other failure stops the
\* loop. A request whose attempts all fail ends with 500 upstream_error, or
\* with 503 NO_AVAILABLE_TOKEN when a retry finds no selectable token.
C9_RetryPolicy ==
    [][\A r \in Reqs :
        /\ LoopDecides(r) =>
              /\ AnotherAttempt(r) <=>
                    /\ req[r].attempt + 1 < 3
                    /\ \/ req[r].lastFail.kind = "thrown"
                       \/ /\ req[r].lastFail.kind = "response"
                          /\ req[r].lastFail.status \in req[r].retryCodes
              /\ ~AnotherAttempt(r) => req'[r].pc = "exhausted"
        /\ (req[r].endpoint = "chat" /\ req[r].pc = "exhausted" /\ req'[r].pc = "done") =>
              req'[r].response = [status |-> 500, code |-> "upstream_error"]
        /\ AllAttemptsFailed(req'[r]) =>
              \/ req'[r].response = [status |-> 500, code |-> "upstream_error"]
              \/ /\ req'[r].response = [status |-> 503, code |-> "NO_AVAILABLE_TOKEN"]
                 /\ req[r].pc = "select" \/ req[r].pc = "done"
      ]_vars

\* C9 witness: a thrown error was followed by another attempt although 500
\* is not in the retryable set, and that attempt's upstream call is out.
C9_Witness ==
    \E r \in Reqs :
        /\ req[r].endpoint = "chat" /\ req[r].pc = "wait"
        /\ req[r].attempt = 1
        /\ req[r].lastFail = [kind |-> "thrown", status |-> 500]
        /\ 500 \notin req[r].retryCodes

Handling(f) ==
    \/ f.pc \in {"fail_record", "fail_cooldown"}
    \/ \E i \in 1..Len(f.ml.w) : f.ml.w[i].pc \in {"fail_record", "fail_cooldown"}

\* C11: in every endpoint a failed upstream call made with a credential is
\* followed at once by recordTokenFailure and applyCooldown: outside the
\* failure handling, a request has written a failure record and a cooldown
\* for each of its failed calls, so before any retry, fallback or response.
C11_FailureRecordedBeforeDecision ==
    \A r \in Reqs :
        ~Handling(req[r]) =>
            /\ req[r].failures >= req[r].callFails
            /\ req[r].cooldowns >= req[r].callFails

\* A chat request answered 200 on its second attempt after a first attempt
\* that ended with a non-success response of a retryable status.
SecondAttemptSucceeded(f) ==
    /\ f.endpoint = "chat" /\ f.pc = "done" /\ f.response.status = 200
    /\ f.attempt = 1 /\ f.lastFail.kind = "response"

C13_OneLogPerRequest ==
    \A r \in Reqs :
        (req[r].pc = "done" /\ req[r].endpoint \in {"chat", "generations", "edits"}) =>
            Len(req[r].logs) = 1

\* A step in which request r asks selectBestToken for a credential and none
\* is selectable: in the chat loop, before the legacy stream call of
\* /images/generations, in /images/edits, or in a legacy mapLimit call of
\* /images/generations.
SelectsNone(r) ==
    /\ Selectable(tokens, now) = {}
    /\ \/ req[r].pc \in {"select", "leg_select"} /\ req'[r] # req[r]
       \/ /\ req[r].pc = "map_wait"
          /\ \E i \in 1..Len(req[r].ml.w) :
                req[r].ml.w[i].pc = "select" /\ req'[r].ml.w[i].pc # "select"

\* C14: whenever selectBestToken returns no credential, the request ends
\* with 503 NO_AVAILABLE_TOKEN, makes no further attempt, and nothing more
\* happens in it after that response.
C14_NoTokenIs503 ==
    [][\A r \in Reqs :
        /\ SelectsNone(r) =>
              /\ req'[r].pc = "done"
              /\ req'[r].response = [status |-> 503, code |-> "NO_AVAILABLE_TOKEN"]
              /\ req'[r].attempt = req[r].attempt
        /\ req[r].response.code = "NO_AVAILABLE_TOKEN" => req'[r] = req[r]
      ]_vars

\* C15: when the image method is experimental and the experimental strategy
\* throws, answers a non-success response or delivers no images, the same
\* request goes on to the legacy strategy and the caller receives the legacy
\* result: a request whose experimental strategy failed is not answered
\* before the legacy strategy has run. Generation and edit, streamed or not.
C15_ExperimentalFallsBackToLegacy ==
    \A r \in Reqs :
        (req[r].expFailed /\ req[r].pc \in {"streaming", "log_ok", "done"}) =>
            req[r].legacy

(***************************************************************************)
(* Properties of the image result helpers.                                 *)
(***************************************************************************)
\* C16: pickImageResults(images, n) returns exactly n entries. With at
\* least n results it returns the entries of n distinct positions of the
\* input, and at every turn each remaining position can be the one picked,
\* so every choice of positions is a possible outcome; with fewer than n it
\* returns all of them followed by n - |images| entries "error".
C16_PickReturnsN ==
    /\ img.pc = "done" =>
          /\ Len(img.picked) = img.n
          /\ Len(img.images) >= img.n =>
                /\ Len(img.pickedPos) = img.n
                /\ \A i \in 1..img.n :
                      /\ img.pickedPos[i] \in 1..Len(img.images)
                      /\ img.picked[i] = img.images[img.pickedPos[i]]
                /\ \A i, j \in 1..img.n :
                      i # j => img.pickedPos[i] # img.pickedPos[j]
          /\ Len(img.images) < img.n =>
                /\ SubSeq(img.picked, 1, Len(img.images)) = img.images
                /\ \A i \in (Len(img.images) + 1)..img.n : img.picked[i] = "error"
    /\ img.pc = "loop" =>
          \A idx \in 1..Len(img.pool) : ENABLED PickStep(idx)

\* C16 witness: n = 1 with two results available, and the second one is
\* the one delivered.
C16_Witness ==
    /\ img.pc = "done" /\ img.n = 1
    /\ img.images = <<"a", "b">>
    /\ img.picked = <<"b">> /\ img.pickedPos = <<2>>

\* The legacy calls of request r that threw, and those that returned.
LegacyJobs == {"gen_legacy", "edit_legacy"}
LegacyThrew(f) == {i \in 1..Len(f.ml.w) : f.ml.w[i].job \in LegacyJobs /\ f.ml.w[i].threw}

\* C17: in a non-streamed image generation or edit with n > 2, when some
\* but not all of the legacy calls fail the request is still answered 200
\* (with "error" in the missing slots): the failure of one call never fails
\* the batch.
C17_PartialFailureStill200 ==
    \A r \in Reqs :
        (/\ req[r].endpoint \in {"generations", "edits"}
         /\ ~req[r].stream /\ req[r].n > 2
         /\ req[r].pc = "done" /\ req[r].legacy
         /\ LegacyThrew(req[r]) # {}
         /\ Cardinality(LegacyThrew(req[r])) < LegacyCalls(req[r].n)) =>
            req[r].response.status = 200

\* The completed events a stream has sent.
CompletedEvents ==
    {k \in 1..Len(sse.events) : sse.events[k].type = "image_generation.completed"}

\* The stream ended normally: onFinish(200) and the controller closed.
EndedNormally == sse.pc = "done" /\ sse.state = "closed" /\ sse.status = 200

\* The images the stream had to report: none were produced.
EmptyResultSet ==
    IF sse.kind = "legacy" THEN sse.finalImages = <<>>
    ELSE \A k \in 1..Len(sse.selected) : sse.selected[k] \in {"", "error"}

\* C18: an image event stream that ends normally has sent at least one
\* image_generation.completed event, whichever of the two stream builders
\* made it, and with an empty result set it has sent exactly one, carrying
\* "error".
C18_StreamAlwaysCompletes ==
    EndedNormally =>
        /\ CompletedEvents # {}
        /\ EmptyResultSet =>
              /\ Cardinality(CompletedEvents) = 1
              /\ \A k \in CompletedEvents : sse.events[k].value = "error"

\* An image request asking for a stream of more than two images (n after
\* clamping to 1..10).
StreamOfMany(f) ==
    f.endpoint \in {"generations", "edits"} /\ f.stream /\ f.n \notin {1, 2}

\* C19: an image generation or edit request with stream = true and clamped
\* n outside {1, 2} is answered 400 as soon as it is handled: no quota is
\* checked or consumed, no credential selected, no file uploaded, nothing
\* sent upstream and no legacy call started.
C19_StreamOfManyRejectedFirst ==
    \A r \in Reqs :
        (StreamOfMany(req[r]) /\ req[r].pc # "idle") =>
            /\ req[r].pc = "done" /\ req[r].response.status = 400
            /\ req[r].quota = IdleReq.quota /\ req[r].consumed = 0
            /\ ~Upstream(req[r]) /\ req[r].ml = IdleReq.ml
            /\ req[r].failures = 0

\* C19 witness: a streamed request for three images, otherwise valid, was
\* refused for its n.
C19_Witness ==
    \E r \in Reqs :
        /\ StreamOfMany(req[r]) /\ req[r].n = 3
        /\ req[r].pc = "done"
        /\ req[r].response = [status |-> 400, code |-> "invalid_stream_n"]

\* C20: when an image strategy, experimental or legacy, fails with an
\* upstream error text that matches the content-moderation signature, the
\* caller is answered 400 content_policy_violation.
C20_ModeratedIs400 ==
    \A r \in Reqs :
        (/\ req[r].endpoint \in {"generations", "edits"}
         /\ req[r].pc = "done"
         /\ req[r].expMod \/ req[r].moderated) =>
            req[r].response = [status |-> 400, code |-> "content_policy_violation"]

\* The answers of /images/edits to a file that is empty, too large or of an
\* unsupported type.
FileRejections == {"empty_file", "file_too_large", "invalid_image_type"}

\* C21: in an image edit every file is checked for size and type before
\* the first upload: a request refused for one of its files has uploaded
\* none of them.
C21_FilesCheckedBeforeUpload ==
    \A r \in Reqs :
        (/\ req[r].endpoint = "edits" /\ req[r].pc = "done"
         /\ req[r].response.code \in FileRejections) =>
            ~req[r].uploaded

\* s is a suffix of str, and is shorter.
ProperSuffix(s, str) ==
    Len(s) < Len(str) /\ s = SubSeq(str, Len(str) - Len(s) + 1, Len(str))

\* C22: the token_suffix written to a request log is a proper suffix of
\* the credential, whatever its length: it never is the whole credential.
C22_SuffixNeverWholeCredential ==
    (fn.pc = "done" /\ fn.name \in {"getTokenSuffix", "jwt.slice"}) =>
        ProperSuffix(fn.result, fn.args[1])

\* selectBestToken returns credential t in this step.
SelectReturns(t) ==
    fn.pc = "idle" /\ fn'.name = "selectBestToken" /\ fn'.result = <<t>>

\* selectBestToken may return credential t now.
MayBeSelected(t) == ENABLED (PoolSelect /\ fn'.result = <<t>>)

\* C23: a credential given a cooldown is not returned by selectBestToken
\* before its cooldown-until time and may be returned again from that time
\* on; recording a failure leaves every credential in the pool and does
\* not touch its cooldown.
C23_CooldownExcludesUntilElapsed ==
    /\ [](\A t \in Tokens :
            (fn.pc = "idle" /\ now >= tokens[t].cooldown_until) => MayBeSelected(t))
    /\ [][/\ \A t \in Tokens : SelectReturns(t) => now >= tokens[t].cooldown_until
          /\ DOMAIN tokens' = Tokens
          /\ \A t \in Tokens :
                tokens'[t].failed_count # tokens[t].failed_count =>
                    tokens'[t].cooldown_until = tokens[t].cooldown_until]_vars

\* C23 witness: a credential that had a failure recorded, was cooled down
\* for a 429 at the start and is returned by selectBestToken once that
\* cooldown is over, while another is still in its cooldown.
C23_Witness ==
    \E t \in Tokens, u \in Tokens :
        /\ tokens[t].cooldown_until = StartMinute + CooldownMinutes(429)
        /\ tokens[t].failed_count > 0
        /\ now >= tokens[t].cooldown_until
        /\ fn = Returned("selectBestToken", <<>>, <<t>>)
        /\ tokens[u].cooldown_until > now

\* The number of the local calendar day of timestamp t under offset tz:
\* floor((t + tz * 60000) / 86400000).
LocalDayNumber(t, tz) ==
    LET local == t + tz * 60000
    IN  IF local >= 0 THEN local \div 86400000
        ELSE -((86400000 - 1 - local) \div 86400000)

\* A local midnight lies after t1 and not after t2: some millisecond of
\* (t1, t2] starts a local day.
MidnightBetween(t1, t2, tz) ==
    LET from == t1 + tz * 60000
        to == t2 + tz * 60000
        \* the first local midnight after t1
        next == (LocalDayNumber(t1, tz) + 1) * 86400000
    IN  from < next /\ next <= to

\* C24: localDayString gives two timestamps the same day string exactly
\* when they have the same local day number; it is constant within a local
\* day, changes at the local midnight of the offset, and two timestamps 23
\* hours apart differ only across a local midnight.
C24_LocalDayStableWithinDay ==
    (fn.pc = "done" /\ fn.name = "localDayString") =>
        LET t1 == fn.args[1]
            t2 == fn.args[2]
            tz == fn.args[3]
            same == fn.result[1] = fn.result[2]
        IN  /\ same <=> LocalDayNumber(t1, tz) = LocalDayNumber(t2, tz)
            /\ same <=> ~MidnightBetween(t1, t2, tz)

\* C24 witness: two timestamps 23 hours apart with a local midnight
\* between them got different day strings, the second starting a year.
C24_Witness ==
    /\ fn.pc = "done" /\ fn.name = "localDayString"
    /\ fn.args[2] - fn.args[1] = 23 * 3600000
    /\ fn.result = <<"1969-12-31", "1970-01-01">>

\* Every increment of the call in frame f is zero or negative.
AddsNothing(f) == \A i \in 1..Len(f.args) : f.args[i].inc <= 0

\* C25: a tryConsumeDailyUsage call whose increment normalises to 0, and a
\* tryConsumeDailyUsageMulti call whose updates all do, return true at
\* once and leave the usage table as it is: no row created, no counter and
\* no updated_at changed.
C25_ZeroIncrementTouchesNothing ==
    [][\A c \in Callers :
          (call[c].pc = "idle" /\ call'[c].pc # "idle" /\ AddsNothing(call'[c])) =>
              /\ call'[c].pc = "done" /\ call'[c].result
              /\ usage' = usage]_vars

\* C25 witness: a single call and a two-bucket call that add nothing have
\* returned true and the key still has no usage row.
C25_Witness ==
    \E c, d \in Callers :
        /\ call[c].pc = "done" /\ call[c].result /\ ~call[c].multi
        /\ call[c].args[1].inc < 0
        /\ call[d].pc = "done" /\ call[d].result /\ call[d].multi
        /\ Len(call[d].args) = 2 /\ AddsNothing(call[d])
        /\ \A day \in Days : ~usage[<<"k1", day>>].exists

\* A step in which caller c's ensureUsageRow runs.
Ensures(c) == call[c].pc = "ensure" /\ call'[c].pc = "update"

ZeroCounters(row) ==
    row.chat_used = 0 /\ row.heavy_used = 0 /\ row.image_used = 0 /\ row.video_used = 0

\* C26: ensureUsageRow, run any number of times by concurrent callers for
\* one (key, day), leaves the one row of that pair in place: a row it
\* creates has its four counters at 0, an existing row is not changed at
\* all, and no other row is touched; a rejected consume changes nothing
\* either, so on a fresh pair it leaves a row of zeros.
C26_EnsureIdempotentNoConsumption ==
    [][\A c \in Callers :
          /\ Ensures(c) =>
                /\ RowOfNext(c).exists
                /\ RowOf(c).exists => usage' = usage
                /\ ~RowOf(c).exists => ZeroCounters(RowOfNext(c))
                /\ \A kd \in DOMAIN usage :
                      kd # <<call[c].key, call[c].day>> => usage'[kd] = usage[kd]
          /\ (Returns(c) /\ ~call'[c].result) =>
                (RowOf(c).exists /\ usage' = usage)]_vars

\* C26 witness: two callers ran ensureUsageRow for one (key, day); one of
\* them was then rejected and the row exists with counters of zero.
C26_Witness ==
    \E c, d \in Callers :
        /\ c # d /\ call[c].day = call[d].day /\ call[c].key = call[d].key
        /\ call[c].pc = "done" /\ ~call[c].result
        /\ call[d].pc = "update"
        /\ RowOf(c).exists /\ ZeroCounters(RowOf(c))

C28_CancelStopsReading ==
    ~(/\ sse.kind = "legacy" /\ sse.state = "cancelled"
      /\ sse.readsAfterCancel >= 2 /\ sse.drained)

\* C29: an image event stream, legacy or synthetic, that has ended has
\* called onFinish exactly once, after the stream was closed or errored,
\* with status 200 exactly when the stream closed without error.
C29_OnFinishOnceAfterClose ==
    sse.pc = "done" =>
        /\ Len(sse.finishes) = 1
        /\ sse.finishes[1].state \in {"closed", "errored"}
        /\ sse.finishes[1].status = 200 <=> sse.state = "closed"

CounterFields == {"chat_used", "heavy_used", "image_used", "video_used"}

\* What an admitted request is to add to a counter of its (key, day) row.
ExpectedInc(f, field) ==
    IF f.endpoint \in {"generations", "edits"}
    THEN (IF field = "image_used" THEN f.n ELSE 0)
    ELSE IF f.model = "grok-4-heavy"
    THEN (IF field \in {"heavy_used", "chat_used"} THEN 1 ELSE 0)
    ELSE IF MODEL_CONFIG[f.model].is_video_model
    THEN (IF field = "video_used" THEN 1 ELSE 0)
    ELSE IF MODEL_CONFIG[f.model].is_image_model
    THEN (IF field = "image_used" THEN 2 ELSE 0)
    ELSE (IF field = "chat_used" THEN 1 ELSE 0)

\* C30: the step that admits a request of a non-admin key with a row of
\* limits adds to the counters of its (key, day) row exactly this: 1 to
\* heavy_used and 1 to chat_used for a grok-4-heavy chat, 1 to video_used
\* for a video model, 2 to image_used for an image model in chat, 1 to
\* chat_used for any other chat model, the clamped n to image_used for an
\* image generation or edit; no other counter and no other row changes.
C30_AdmittedRequestCounters ==
    [][\A r \in Reqs :
          (QuotaDecides(r) /\ req'[r].quota = "ok") =>
              /\ \A field \in CounterFields :
                    UsageOfNext(r)[field] = UsageOf(r)[field] + ExpectedInc(req[r], field)
              /\ \A kd \in DOMAIN usage :
                    kd # <<req[r].q.key, req[r].q.day>> => usage'[kd] = usage[kd]]_vars

\* C30 witness: an image generation or edit for three images and a chat
\* with the image model were both admitted for one key on one day, and the
\* row counts 3 + 2 images and nothing else.
C30_Witness ==
    \E r, t \in Reqs, day \in Days :
        /\ req[r].endpoint \in {"generations", "edits"} /\ req[r].n = 3
        /\ req[t].endpoint = "chat" /\ MODEL_CONFIG[req[t].model].is_image_model
        /\ req[r].quota = "ok" /\ req[t].quota = "ok"
        /\ req[r].consumed = 1 /\ req[t].consumed = 1
        /\ req[r].q.day = day /\ req[t].q.day = day
        /\ usage[<<"k1", day>>].image_used = 5
        /\ usage[<<"k1", day>>].chat_used = 0
        /\ usage[<<"k1", day>>].heavy_used = 0
        /\ usage[<<"k1", day>>].video_used = 0

\* What the admitted calls for (key, day) pair kd have added to field.
RECURSIVE AdmittedSum(_, _, _)
AdmittedSum(cs, kd, field) ==
    IF cs = {} THEN 0
    ELSE LET c == CHOOSE x \in cs : TRUE
             mine == /\ call[c].pc = "done" /\ call[c].result
                     /\ <<call[c].key, call[c].day>> = kd
             incs == {i \in 1..Len(call[c].args) : call[c].args[i].field = field}
             add == IF mine /\ incs # {}
                    THEN NormalizeInc(call[c].args[CHOOSE i \in incs : TRUE].inc)
                    ELSE 0
         IN  add + AdmittedSum(cs \ {c}, kd, field)

\* The buckets a call names.
NamedFields(f) == {f.args[i].field : i \in 1..Len(f.args)}

\* C31: a tryConsumeDailyUsage or tryConsumeDailyUsageMulti call for
\* (key, day) changes no row of another key or another day and, in its
\* own row, only the counters of the buckets it names and updated_at; each
\* row counts what was admitted for its own key and day only, so the row
\* of the day after a local midnight starts from 0 whatever the day before
\* had reached.
C31_OnlyOwnRowAndBuckets ==
    /\ [](\A kd \in DOMAIN usage, field \in UsageFields :
            usage[kd][field] = AdmittedSum(Callers, kd, field))
    /\ [][\A c \in Callers :
            (call[c].pc \in {"ensure", "update"} /\ call'[c].pc # call[c].pc) =>
                /\ \A kd \in DOMAIN usage :
                      kd # <<call[c].key, call[c].day>> => usage'[kd] = usage[kd]
                /\ \A field \in UsageFields \ NamedFields(call[c]) :
                      RowOfNext(c)[field] = RowOf(c)[field]]_vars

\* C31 witness: one call was admitted before the local midnight and one
\* after it, for the same key and bucket; each day's row counts 1.
C31_Witness ==
    \E c, d \in Callers, field \in LedgerFields :
        /\ call[c].pc = "done" /\ call[c].result
        /\ call[d].pc = "done" /\ call[d].result
        /\ call[c].key = call[d].key /\ call[c].day # call[d].day
        /\ ~call[c].multi /\ ~call[d].multi
        /\ call[c].args[1].field = field /\ call[d].args[1].field = field
        /\ usage[<<call[c].key, call[c].day>>][field] = 1
        /\ usage[<<call[d].key, call[d].day>>][field] = 1

\* C32: the four counters of every (key, day) row never decrease and no
\* row is ever removed, whatever the core does: a request whose upstream
\* attempts all fail, or that ends with 503 or 500, gives nothing back, and
\* deleteApiKey leaves the usage rows of the deleted key in place.
C32_CountersNeverDecrease ==
    [][\A kd \in DOMAIN usage :
          usage[kd].exists =>
              /\ usage'[kd].exists
              /\ \A field \in UsageFields : usage'[kd][field] >= usage[kd][field]]_vars

\* C32 witness: a request consumed quota and ended with 500 or 503, the
\* key was deleted afterwards, and the row still holds what was consumed.
C32_Witness ==
    \E r \in Reqs, kd \in DOMAIN usage :
        /\ req[r].pc = "done" /\ req[r].response.status \in {500, 503}
        /\ req[r].consumed >= 1 /\ req[r].auth.key = kd[1]
        /\ ~api_keys[kd[1]].exists
        /\ usage[kd].exists
        /\ \E field \in UsageFields : usage[kd][field] >= 1

\* The invocations of fn that have started and not settled.
InFlight == {w \in DOMAIN mlim.workers : mlim.workers[w].pc = "awaiting"}

\* How often fn was invoked on item i, and how many results item i has.
Invocations(i) == Cardinality({k \in DOMAIN mlim.started : mlim.started[k] = i})
ResultsOf(i) == Cardinality({k \in DOMAIN mlim.returned : mlim.returned[k] = i})

C39_ResultsInInputOrder ==
    mlim.pc = "resolved" =>
        mlim.returned = [i \in 1..mlim.items |-> i]

\* C40: when one invocation of fn inside mapLimit fails nothing further is
\* done for the call: once a non-streaming image generation request has been
\* answered because one legacy call threw, no token is selected, no upstream
\* call is made and no failure or cooldown is recorded on its behalf.
C40_NothingAfterFailedCall ==
    [][\A r \in Reqs :
          (/\ req[r].pc = "done" /\ req[r].endpoint = "generations"
           /\ ~req[r].stream
           /\ \E i \in WorkersOf(req[r].ml, "gen_legacy") :
                 req[r].ml.w[i].threw /\ req[r].ml.w[i].pc = "dead") =>
              /\ req'[r] = req[r]
              /\ tokens' = tokens]_vars

\* C34: within one request a credential to which recordTokenFailure and
\* applyCooldown have been applied makes no later upstream call of that
\* request: neither the handler nor a worker of its mapLimit calls stands
\* before an upload or an upstream call with a credential the request has
\* cooled down, in particular not the legacy fallback of an image edit.
C34_CooledCredentialNotReused ==
    \A r \in Reqs :
        /\ req[r].pc \in {"upload", "post", "send", "files", "exp_call", "leg_call"} =>
               req[r].chosen \notin req[r].cooled
        /\ \A i \in 1..Len(req[r].ml.w) :
               req[r].ml.w[i].pc = "call" => req[r].ml.w[i].token \notin req[r].cooled

\* C35: for one update (field, inc, limit) with inc >= 1, any limit from -1
\* upwards and any starting counter, tryConsumeDailyUsageMulti with the
\* list of that one update returns what tryConsumeDailyUsage returns and
\* leaves the same row.
C35_MultiOfOneEqualsSingle ==
    (call[1].pc = "done" /\ call[2].pc = "done") =>
        /\ call[2].result = call[1].result
        /\ usage[<<"k2", call[2].day>>] = usage[<<"k1", call[1].day>>]

\* C36: when updateApiKeyLimits changes a limit while requests of the key
\* are served, a consumption whose conditional UPDATE runs after the change
\* is checked against the new limit: every increment that is written fits
\* under the limit the key has at that moment.
C36_AdmittedAgainstCurrentLimit ==
    [][\A r \in Reqs :
          (QuotaDecides(r) /\ UsageOfNext(r) # UsageOf(r)) =>
              \A i \in DOMAIN Normalized(req[r].q) :
                  LET u == Normalized(req[r].q)[i]
                  IN  QuotaCondition(UsageOf(r), u.field, u.inc,
                                     api_keys[req[r].q.key][LimitField(u.field)])]_vars

\* The callers for whom enforceQuota has nothing to enforce.
Exempt(auth) ==
    auth.is_admin \/ auth.key = "" \/ ~getApiKeyLimits(api_keys, auth.key).found

\* enforceQuota of request r returns in this step.
QuotaReturns(r) == req[r].quota = "none" /\ req'[r].quota # "none"

\* C37: enforceQuota returns ok without touching the usage table when the
\* caller is an administrator, has an empty key, or has a key whose row is
\* missing or inactive: such a request makes no ledger call, and while only
\* such requests are served no row exists; for every other caller
\* enforceQuota either writes an increment and returns ok or returns the
\* 429 response.
C37_ExemptOrCounted ==
    /\ [](\A r \in Reqs : (req[r].pc # "idle" /\ Exempt(req[r].auth)) =>
              /\ req[r].pc \notin {"quota_ensure", "quota_update"}
              /\ req[r].q = IdleCall /\ req[r].consumed = 0
              /\ req[r].quota \in {"none", "ok"})
    /\ []((\A r \in Reqs : req[r].pc = "idle" \/ Exempt(req[r].auth)) =>
              \A kd \in DOMAIN usage : ~usage[kd].exists)
    /\ [][\A r \in Reqs : QuotaReturns(r) =>
              IF Exempt(req'[r].auth)
              THEN req'[r].quota = "ok" /\ usage' = usage
              ELSE \/ /\ req'[r].quota = "ok"
                      /\ \E field \in UsageFields :
                            UsageOfNext(r)[field] > UsageOf(r)[field]
                   \/ /\ req'[r].quota = "rejected"
                      /\ req'[r].response = [status |-> 429, code |-> "daily_quota_exceeded"]
                      /\ usage' = usage]_vars

\* C37 witness: an administrator holding the active key k1 and the holder
\* of the inactive key k2 have both been let through, and no usage row
\* exists.
C37_Witness ==
    /\ api_keys["k2"].exists
    /\ \E r, q \in Reqs :
          /\ req[r].auth = [key |-> "k1", is_admin |-> TRUE] /\ req[r].quota = "ok"
          /\ req[q].auth = [key |-> "k2", is_admin |-> FALSE] /\ req[q].quota = "ok"
    /\ \A kd \in DOMAIN usage : ~usage[kd].exists

\* The error codes of the client validation errors.
ValidationCodes ==
    {"missing_model", "missing_messages", "missing_prompt", "model_not_supported",
     "invalid_model", "invalid_response_format", "invalid_stream_n",
     "missing_image", "invalid_image_count"} \cup FileRejections

\* C38: a request rejected with a client validation error (HTTP 400) has
\* consumed no quota: no increment was written for it, so the counters of
\* its key are what they were before the request.
C38_ValidationErrorConsumesNothing ==
    \A r \in Reqs :
        (/\ req[r].pc = "done" /\ req[r].response.status = 400
         /\ req[r].response.code \in ValidationCodes) =>
            /\ req[r].consumed = 0
            /\ \A kd \in DOMAIN usage, field \in UsageFields : usage[kd][field] = 0

====
